---- MODULE Spec2Model ----
(***************************************************************************)
(* ModelArena client-side UI layer (src/js/main.js): the toggle widgets    *)
(* (MobileMenu, MobileSearch, AddTagModal, AuthModals), the application    *)
(* coordinator (Escape key, debounced resize), the favorites store and the *)
(* lazy image loader.                                                      *)
(*                                                                         *)
(* The browser is single threaded.  Event handlers run to completion;     *)
(* callbacks passed to requestAnimationFrame are queued and run, in        *)
(* registration order, at the next animation frame; a callback registered  *)
(* while a frame is running waits for the following frame.                 *)
(***************************************************************************)
EXTENDS Integers, Sequences, FiniteSets, TLC

VARIABLES
  page,          \* widget fields, DOM classes/attributes and the callback queue
  frameLeft,     \* callbacks of the running animation frame still to run
  resizeTimer,   \* the debounce timer of the resize handler
  last,          \* history: the last input event and what was open before it
  toggles,       \* history: the widget under test and its effective toggles
  favorites,     \* FavoriteButtons.favorites, a JavaScript value
  storage,       \* localStorage entry under the key modelArenaFavorites
  active,        \* the favorite buttons that carry the class is-active
  toasts,        \* the notifications shown so far
  favThrown,     \* whether a FavoriteButtons operation raised an error
  favLog,        \* history: per toggle, its identifier and the state before
  images,        \* the img elements: src, data-src, classes
  loadedImages,  \* ImageLoader.loadedImages
  inflight,      \* temporary Image objects whose load has not finished
  fetches,       \* history: the URLs fetched, in the order the fetches began
  loadCalls,     \* history: number of loadImage calls made
  lazy,          \* the IntersectionObserver of setupLazyLoading and its history
  search,        \* the search input, its focus and the calls SearchForm made
  dom,           \* the target elements the document holds, the errors raised
  form,          \* a form with required fields and its validation marks
  sw,            \* the service worker: its phase, its caches, its answers
  deploy,        \* a run of the publish script over a git working tree
  tabs,          \* page instances that share the favorites storage key
  boot,          \* the start of the application while the document loads
  build          \* a run of the build script over the build directory

vars == <<page, frameLeft, resizeTimer, last, toggles,
          favorites, storage, active, toasts, favThrown, favLog,
          images, loadedImages, inflight, fetches, loadCalls,
          lazy, search, dom, form, sw, deploy, tabs, boot, build>>

uiVars == <<page, frameLeft, resizeTimer, last, toggles>>

favVars == <<favorites, storage, active, toasts, favThrown, favLog>>

imgVars == <<images, loadedImages, inflight, fetches, loadCalls>>

lastVars == <<boot, build>>

laterVars == <<form, sw, deploy, tabs, lastVars>>

baseVars == <<page, frameLeft, resizeTimer, last, toggles,
              favorites, storage, active, toasts, favThrown, favLog,
              images, loadedImages, inflight, fetches, loadCalls,
              lazy, search, dom>>

otherVars == <<lazy, search, dom, laterVars>>

(***************************************************************************)
(* Bounds of the model.                                                    *)
(***************************************************************************)
\* an input event is delivered only while fewer callbacks than this wait
MaxPending == 2
\* longest favorites array found in storage when the page loads
MaxStored == 2
\* number of clicks on favorite buttons
MaxClicks == 3
\* number of loadImage calls
MaxLoads == 3
\* number of toggle() calls counted in the single-widget specification
MaxToggles == 10

(***************************************************************************)
(* Program constants.                                                      *)
(***************************************************************************)
\* debounce wait of the resize handler, in milliseconds
ResizeWait == 250
\* responsive breakpoint of handleResize, in pixels
Breakpoint == 768

(***************************************************************************)
(* requestAnimationFrame(cb): cb joins the queue of pending callbacks.     *)
(***************************************************************************)
Sched(s, cb) == [s EXCEPT !.raf = Append(@, cb)]

(***************************************************************************)
(* MobileMenu                                                              *)
(***************************************************************************)
\* faulty variant: open() that takes the lock and requests no callback
MenuOpenNoCallback(s) ==
  IF s.menuIsOpen \/ s.menuIsAnimating THEN s
  ELSE [s EXCEPT !.menuIsAnimating = TRUE, !.menuIsOpen = TRUE]

MenuOpen(s) ==
  IF s.menuIsOpen \/ s.menuIsAnimating THEN s
  ELSE Sched([s EXCEPT !.menuIsAnimating = TRUE, !.menuIsOpen = TRUE],
             "menuOpen")

\* faulty variant: close() without the animation lock
MenuCloseNoLock(s) ==
  IF ~s.menuIsOpen THEN s
  ELSE Sched([s EXCEPT !.menuIsAnimating = TRUE, !.menuIsOpen = FALSE],
             "menuClose")

MenuClose(s) ==
  IF ~s.menuIsOpen \/ s.menuIsAnimating THEN s
  ELSE Sched([s EXCEPT !.menuIsAnimating = TRUE, !.menuIsOpen = FALSE],
             "menuClose")

\* faulty variant: toggle() with the two branches swapped
MenuToggleSwapped(s) ==
  IF s.menuIsAnimating THEN s
  ELSE IF s.menuIsOpen THEN MenuOpen(s) ELSE MenuClose(s)

MenuToggle(s) ==
  IF s.menuIsAnimating THEN s
  ELSE IF s.menuIsOpen THEN MenuClose(s) ELSE MenuOpen(s)

(***************************************************************************)
(* MobileSearch                                                            *)
(***************************************************************************)
\* faulty variant: open() that shows the panel and leaves isOpen unset
SearchOpenNoFlag(s) ==
  IF s.searchIsOpen THEN s ELSE Sched(s, "searchOpen")

SearchOpen(s) ==
  IF s.searchIsOpen THEN s
  ELSE Sched([s EXCEPT !.searchIsOpen = TRUE], "searchOpen")

\* faulty variant: close() that clears the flag and forgets the DOM update
SearchCloseFlagOnly(s) ==
  IF ~s.searchIsOpen THEN s ELSE [s EXCEPT !.searchIsOpen = FALSE]

SearchClose(s) ==
  IF ~s.searchIsOpen THEN s
  ELSE Sched([s EXCEPT !.searchIsOpen = FALSE], "searchClose")

SearchToggle(s) ==
  IF s.searchIsOpen THEN SearchClose(s) ELSE SearchOpen(s)

(***************************************************************************)
(* AuthModals                                                              *)
(***************************************************************************)
CloseLogin(s) == Sched(s, "loginClose")

CloseSignup(s) == Sched(s, "signupClose")

\* faulty variant: openLogin that leaves the signup modal alone
OpenLoginOnly(s) == Sched(s, "loginOpen")

OpenLogin(s) == Sched(CloseSignup(s), "loginOpen")

OpenSignup(s) == Sched(CloseLogin(s), "signupOpen")

SwitchToSignup(s) == Sched(CloseLogin(s), "switchSignup")

SwitchToLogin(s) == Sched(CloseSignup(s), "switchLogin")

(***************************************************************************)
(* AddTagModal                                                             *)
(***************************************************************************)
TagOpen(s) ==
  IF s.tagIsOpen THEN s
  ELSE Sched([s EXCEPT !.tagIsOpen = TRUE], "tagOpen")

TagClose(s) ==
  IF ~s.tagIsOpen THEN s
  ELSE Sched([s EXCEPT !.tagIsOpen = FALSE], "tagClose")

\* v is the text typed into the tag input ("" when blank after trimming)
HandleConfirm(s, v) == IF v = "" THEN s ELSE TagClose(s)

CloseAll(s) == TagClose(CloseSignup(CloseLogin(s)))

(***************************************************************************)
(* The bodies of the callbacks handed to requestAnimationFrame.            *)
(***************************************************************************)
RunCallback(s, cb) ==
  CASE cb = "menuOpen" ->
         [SearchClose([s EXCEPT !.ariaMenu = "true",
                                !.navClosedCls = FALSE,
                                !.navOpenCls = TRUE])
            EXCEPT !.menuIsAnimating = FALSE]
    [] cb = "menuClose" ->
         [s EXCEPT !.ariaMenu = "false", !.navOpenCls = FALSE,
                   !.navClosedCls = TRUE, !.menuIsAnimating = FALSE]
    [] cb = "searchOpen" ->
         Sched([MenuClose([s EXCEPT !.searchHidden = FALSE])
                  EXCEPT !.searchInputCached = TRUE], "searchFocus")
    [] cb = "searchClose" ->
         [s EXCEPT !.searchHidden = TRUE, !.menuToggleHidden = FALSE]
    [] cb = "searchFocus" -> [s EXCEPT !.focus = "mobileSearchInput"]
    [] cb = "loginOpen" ->
         Sched([s EXCEPT !.loginHidden = FALSE, !.loginFlex = TRUE,
                         !.overflow = "hidden"], "loginFocus")
    [] cb = "loginFocus" -> [s EXCEPT !.focus = "loginInput"]
    [] cb = "loginClose" ->
         [s EXCEPT !.loginFlex = FALSE, !.loginHidden = TRUE,
                   !.overflow = ""]
    [] cb = "signupOpen" ->
         Sched([s EXCEPT !.signupHidden = FALSE, !.overflow = "hidden"],
               "signupFocus")
    [] cb = "signupFocus" -> [s EXCEPT !.focus = "signupInput"]
    [] cb = "signupClose" ->
         [s EXCEPT !.signupHidden = TRUE, !.overflow = ""]
    [] cb = "switchSignup" -> OpenSignup(s)
    [] cb = "switchLogin" -> OpenLogin(s)
    [] cb = "tagOpen" ->
         Sched([s EXCEPT !.tagHidden = FALSE, !.tagFlex = TRUE,
                         !.overflow = "hidden"], "tagFocus")
    [] cb = "tagFocus" -> [s EXCEPT !.focus = "tagInput"]
    [] cb = "tagClose" ->
         [s EXCEPT !.tagFlex = FALSE, !.tagHidden = TRUE, !.overflow = ""]

(***************************************************************************)
(* Click listeners.  A click is dispatched to the listeners of the target  *)
(* and then bubbles to the document listeners, which run in the order the  *)
(* components registered them: MobileMenu, MobileSearch, AuthModals.       *)
(***************************************************************************)
Targets ==
  {"menuToggle", "nav", "navLink", "searchToggle", "searchField",
   "loginBtn", "registerBtn", "loginClose", "signupClose",
   "openSignupLink", "openLoginLink", "loginBackdrop", "signupBackdrop",
   "addTagBtn", "tagCloseBtn", "tagConfirmBtn", "tagBackdrop", "elsewhere"}

InsideMenu(t) == t \in {"menuToggle", "nav", "navLink"}

InsideSearch(t) == t \in {"searchToggle", "searchField"}

\* listeners bound to the target element or its ancestors below document
TargetListeners(s, t, v) ==
  CASE t = "menuToggle" -> MenuToggle(s)
    [] t = "navLink" -> MenuClose(s)
    [] t = "searchToggle" -> SearchToggle(s)
    [] t = "addTagBtn" -> TagOpen(s)
    [] t = "tagCloseBtn" -> TagClose(s)
    [] t = "tagConfirmBtn" -> HandleConfirm(s, v)
    [] t = "tagBackdrop" -> TagClose(s)
    [] OTHER -> s

\* faulty variant: the menu without its document click listener
MenuDocumentClickIgnored(s, t) == s

MenuDocumentClick(s, t) ==
  IF ~s.menuIsOpen THEN s
  ELSE IF ~InsideMenu(t) THEN MenuClose(s) ELSE s

SearchDocumentClick(s, t) ==
  IF ~s.searchIsOpen THEN s
  ELSE IF ~InsideSearch(t) THEN SearchClose(s) ELSE s

AuthDocumentClick(s, t) ==
  CASE t = "loginBtn" -> OpenLogin(s)
    [] t = "registerBtn" -> OpenSignup(s)
    [] t = "loginClose" -> CloseLogin(s)
    [] t = "signupClose" -> CloseSignup(s)
    [] t = "openSignupLink" -> SwitchToSignup(s)
    [] t = "openLoginLink" -> SwitchToLogin(s)
    [] t = "loginBackdrop" -> CloseLogin(s)
    [] t = "signupBackdrop" -> CloseSignup(s)
    [] OTHER -> s

ClickHandlers(s, t, v) ==
  AuthDocumentClick(
    SearchDocumentClick(
      MenuDocumentClick(TargetListeners(s, t, v), t), t), t)

(***************************************************************************)
(* Escape key: AddTagModal's own listener, then the coordinator's.         *)
(***************************************************************************)
TagEscape(s) == IF s.tagIsOpen THEN TagClose(s) ELSE s

EscapeHandlers(s) ==
  CloseAll(TagClose(SearchClose(MenuClose(TagEscape(s)))))

(***************************************************************************)
(* Resize: handleResize behind the debounce wrapper.                       *)
(***************************************************************************)
HandleResize(s, w) ==
  IF w >= Breakpoint THEN SearchClose(MenuClose(s)) ELSE s

Widths == {Breakpoint - 1, Breakpoint}

\* window.addEventListener("resize", debounce(...)): clearTimeout, setTimeout
DebouncedResize(tm) == [armed |-> TRUE, elapsed |-> 0]

(***************************************************************************)
(* Initial state: the page as served, every panel and modal hidden, the    *)
(* components constructed.                                                 *)
(***************************************************************************)
AriaInitial == {"absent", "false"}

InitPage(a1, a2) ==
  [menuIsOpen |-> FALSE, menuIsAnimating |-> FALSE,
   ariaMenu |-> a1, navOpenCls |-> FALSE, navClosedCls |-> TRUE,
   searchIsOpen |-> FALSE, searchHidden |-> TRUE, ariaSearch |-> a2,
   searchInputCached |-> FALSE, menuToggleHidden |-> FALSE,
   tagIsOpen |-> FALSE, tagHidden |-> TRUE, tagFlex |-> FALSE,
   loginHidden |-> TRUE, loginFlex |-> FALSE, signupHidden |-> TRUE,
   overflow |-> "", focus |-> "none", raf |-> <<>>]

\* the widgets that are open: by their flag, or by visibility for the
\* auth modals, which keep no flag
OpenWidgets(s) ==
  {w \in {"menu", "search", "tag", "login", "signup"} :
     CASE w = "menu" -> s.menuIsOpen
       [] w = "search" -> s.searchIsOpen
       [] w = "tag" -> s.tagIsOpen
       [] w = "login" -> ~s.loginHidden
       [] w = "signup" -> ~s.signupHidden}

\* the widgets whose panel is shown
VisibleWidgets(s) ==
  {w \in {"menu", "search", "tag", "login", "signup"} :
     CASE w = "menu" -> s.navOpenCls
       [] w = "search" -> ~s.searchHidden
       [] w = "tag" -> ~s.tagHidden
       [] w = "login" -> ~s.loginHidden
       [] w = "signup" -> ~s.signupHidden}

\* the record kept of an input event or method call: its name, the widgets
\* open before it, the menu's animation lock before it, and a bit that
\* flips with every method call
Event(name, s, bit) ==
  [ev |-> name, open |-> OpenWidgets(s), anim |-> s.menuIsAnimating,
   seq |-> bit]

FavInitIdle ==
  /\ favorites = [kind |-> "array", items |-> <<>>]
  /\ storage = [present |-> FALSE, text |-> <<>>]
  /\ active = {}
  /\ toasts = <<>>
  /\ favThrown = FALSE
  /\ favLog = <<>>

ImgInitIdle ==
  /\ images = <<>> /\ loadedImages = {} /\ inflight = {} /\ fetches = <<>>
  /\ loadCalls = 0

LazyInitIdle ==
  lazy = [observed |-> {}, inView |-> {}, hits |-> <<>>, loads |-> <<>>,
          thrown |-> 0]

SearchInitIdle == search = [value |-> <<>>, focused |-> FALSE, log |-> <<>>]

\* the elements the widgets look up when they are constructed
Elements ==
  {"menuToggle", "mobileNav", "searchToggle", "searchField",
   "loginModal", "signupModal", "tagModal", "addTagBtn",
   "searchForm", "searchInput", "pwToggle", "pwInput", "pwIcon"}

DomInitIdle ==
  dom = [present |-> Elements, thrown |-> {}, pwType |-> "password",
         events |-> 0]

FormInitIdle ==
  form = [values |-> <<>>, parent |-> <<>>, invalid |-> {}, errors |-> {},
          submits |-> 0, blocked |-> FALSE, fresh |-> FALSE]

SwInitIdle ==
  sw = [phase |-> "none", names |-> {}, deleted |-> {}, cache |-> {},
        body |-> <<>>, others |-> {}, puts |-> {}, fetched |-> {},
        log |-> <<>>]

DeployInitIdle ==
  deploy = [pc |-> "idle", work |-> <<>>, index |-> <<>>, head |-> <<>>,
            remote |-> <<>>, log |-> <<>>, failedAt |-> "none",
            changed |-> "unknown", exit |-> "none"]

TabsInitIdle ==
  tabs = [store |-> [present |-> FALSE, text |-> <<>>], mem |-> <<>>,
          ops |-> <<>>]

BootInitIdle ==
  boot = [ready |-> "complete", started |-> FALSE, fired |-> TRUE,
          listeners |-> <<>>, raf |-> <<>>, apps |-> 0,
          isInitialized |-> FALSE, inits |-> 0, features |-> 0,
          parsed |-> 0, doc |-> <<>>, handlers |-> <<>>, calls |-> 0]

BuildInitIdle ==
  build = [pc |-> "idle", dir |-> {}, sources |-> {}, html |-> "absent",
           optimized |-> FALSE, out |-> <<>>, exit |-> "none"]

LastInitIdle == BootInitIdle /\ BuildInitIdle

LaterInitIdle ==
  /\ FormInitIdle /\ SwInitIdle /\ DeployInitIdle /\ TabsInitIdle
  /\ LastInitIdle

OtherInitIdle ==
  LazyInitIdle /\ SearchInitIdle /\ DomInitIdle /\ LaterInitIdle

Init ==
  /\ \E a1 \in AriaInitial, a2 \in AriaInitial : page = InitPage(a1, a2)
  /\ frameLeft = 0
  /\ resizeTimer = [armed |-> FALSE, elapsed |-> 0]
  /\ last = Event("load", InitPage("absent", "absent"), 0)
  /\ toggles = [widget |-> "none", count |-> 0]
  /\ FavInitIdle
  /\ ImgInitIdle
  /\ OtherInitIdle

(***************************************************************************)
(* Input events.  They are tasks of the event loop: none runs while the    *)
(* callbacks of an animation frame are running.                            *)
(***************************************************************************)
CanDeliver == frameLeft = 0 /\ Len(page.raf) < MaxPending

Click(t) ==
  /\ CanDeliver
  /\ \E v \in {"", "tag"} :
       /\ t # "tagConfirmBtn" => v = ""
       /\ page' = ClickHandlers(page, t, v)
  /\ last' = Event(IF t = "menuToggle" /\ ~page.menuIsOpen
                        /\ ~page.menuIsAnimating
                     THEN "menuOpenCall"
                     ELSE IF t = "searchToggle" /\ ~page.searchIsOpen
                     THEN "searchOpenCall"
                     ELSE "click", page, 0)
  /\ UNCHANGED <<frameLeft, resizeTimer, toggles, favVars, imgVars, otherVars>>

KeyEscape ==
  /\ CanDeliver
  /\ page' = EscapeHandlers(page)
  /\ last' = Event("escape", page, 0)
  /\ UNCHANGED <<frameLeft, resizeTimer, toggles, favVars, imgVars, otherVars>>

Resize ==
  /\ frameLeft = 0
  /\ resizeTimer' = DebouncedResize(resizeTimer)
  /\ UNCHANGED <<page, frameLeft, last, toggles, favVars, imgVars, otherVars>>

\* time passes: half of the debounce wait, while the timer is not yet due;
\* animation frames come far more often, so no callback is left waiting
Tick ==
  /\ page.raf = <<>>
  /\ resizeTimer.armed /\ resizeTimer.elapsed < ResizeWait
  /\ resizeTimer' = [resizeTimer EXCEPT !.elapsed = @ + ResizeWait \div 2]
  /\ UNCHANGED <<page, frameLeft, last, toggles, favVars, imgVars, otherVars>>

\* the debounce timer fires: later() runs handleResize
ResizeTimeout ==
  /\ CanDeliver
  /\ resizeTimer.armed /\ resizeTimer.elapsed >= ResizeWait
  /\ \E w \in Widths :
       /\ page' = HandleResize(page, w)
       /\ last' = Event(IF w >= Breakpoint THEN "resizeWide"
                        ELSE "resizeNarrow", page, 0)
  /\ resizeTimer' = [armed |-> FALSE, elapsed |-> 0]
  /\ UNCHANGED <<frameLeft, toggles, favVars, imgVars, otherVars>>

(***************************************************************************)
(* One callback of an animation frame.  The first callback of a frame      *)
(* fixes the frame's batch: the callbacks pending at that moment.          *)
(***************************************************************************)
AnimationFrame ==
  /\ page.raf # <<>>
  /\ LET n == IF frameLeft = 0 THEN Len(page.raf) ELSE frameLeft
     IN /\ page' = RunCallback([page EXCEPT !.raf = Tail(@)], Head(page.raf))
        /\ frameLeft' = n - 1
  /\ UNCHANGED <<resizeTimer, last, toggles, favVars, imgVars, otherVars>>

Next ==
  \/ \E t \in Targets : Click(t)
  \/ KeyEscape
  \/ Resize
  \/ Tick
  \/ ResizeTimeout
  \/ AnimationFrame

Spec == Init /\ [][Next]_vars

\* the browser runs every requested animation-frame callback in the end
SpecFrames == Spec /\ WF_vars(AnimationFrame)

(***************************************************************************)
(* The widgets' methods called directly, in any order, between frames.     *)
(***************************************************************************)
Methods ==
  {"menu.open", "menu.close", "menu.toggle",
   "search.open", "search.close", "search.toggle",
   "tag.open", "tag.close",
   "openLogin", "closeLogin", "openSignup", "closeSignup",
   "switchToLogin", "switchToSignup", "closeAll"}

ApplyMethod(s, m) ==
  CASE m = "menu.open" -> MenuOpen(s)
    [] m = "menu.close" -> MenuClose(s)
    [] m = "menu.toggle" -> MenuToggle(s)
    [] m = "search.open" -> SearchOpen(s)
    [] m = "search.close" -> SearchClose(s)
    [] m = "search.toggle" -> SearchToggle(s)
    [] m = "tag.open" -> TagOpen(s)
    [] m = "tag.close" -> TagClose(s)
    [] m = "openLogin" -> OpenLogin(s)
    [] m = "closeLogin" -> CloseLogin(s)
    [] m = "openSignup" -> OpenSignup(s)
    [] m = "closeSignup" -> CloseSignup(s)
    [] m = "switchToLogin" -> SwitchToLogin(s)
    [] m = "switchToSignup" -> SwitchToSignup(s)
    [] m = "closeAll" -> CloseAll(s)

Call(m) ==
  /\ CanDeliver
  /\ page' = ApplyMethod(page, m)
  /\ last' = Event(m, page, 1 - last.seq)
  /\ UNCHANGED <<frameLeft, resizeTimer, toggles, favVars, imgVars, otherVars>>

NextCalls ==
  \/ \E m \in Methods : Call(m)
  \/ AnimationFrame

SpecCalls == Init /\ [][NextCalls]_vars

(***************************************************************************)
(* One widget driven by toggle() calls and animation frames only.          *)
(***************************************************************************)
InitToggle ==
  /\ \E a1 \in AriaInitial, a2 \in AriaInitial : page = InitPage(a1, a2)
  /\ frameLeft = 0
  /\ resizeTimer = [armed |-> FALSE, elapsed |-> 0]
  /\ last = Event("load", InitPage("absent", "absent"), 0)
  /\ \E w \in {"menu", "search"} : toggles = [widget |-> w, count |-> 0]
  /\ FavInitIdle
  /\ ImgInitIdle
  /\ OtherInitIdle

\* a toggle is effective when issued while the widget is not animating;
\* MobileSearch keeps no animation lock
Effective(s, w) == IF w = "menu" THEN ~s.menuIsAnimating ELSE TRUE

ToggleCall ==
  /\ CanDeliver
  /\ toggles.count < MaxToggles
  /\ page' = IF toggles.widget = "menu" THEN MenuToggle(page)
             ELSE SearchToggle(page)
  /\ toggles' = [toggles EXCEPT !.count =
                   IF Effective(page, toggles.widget) THEN @ + 1 ELSE @]
  /\ last' = Event("toggle", page, 1 - last.seq)
  /\ UNCHANGED <<frameLeft, resizeTimer, favVars, imgVars, otherVars>>

NextToggle ==
  \/ ToggleCall
  \/ AnimationFrame

SpecToggle == InitToggle /\ [][NextToggle]_vars

(***************************************************************************)
(* FavoriteButtons.  The stored value is JSON text, modelled as its        *)
(* sequence of tokens; a string token is the identifier it quotes.         *)
(***************************************************************************)
Ids == {"m1", "m2"}

\* identifiers Math.random().toString(36).substr(2, 9) may produce
RandomIds == {"r1", "r2"}

Punctuation == {"[", "]", ",", "{", "}", "null", "7", "oops"}

Buttons == {"b1", "b2", "b3", "b4"}

\* dataset.modelId of the button's .model-card, "" when there is none
CardId(b) ==
  CASE b = "b1" -> "m1"
    [] b = "b2" -> "m2"
    [] b = "b3" -> "m1"
    [] b = "b4" -> ""

RECURSIVE StringifyItems(_)
\* the elements of an array of strings, separated by commas
StringifyItems(items) ==
  IF Len(items) = 0 THEN <<>>
  ELSE IF Len(items) = 1 THEN <<items[1]>>
  ELSE <<items[1], ",">> \o StringifyItems(Tail(items))

\* faulty variant: removeFavorite that drops only the first occurrence
RemoveFirst(fav, id) ==
  LET k == CHOOSE i \in 1..Len(fav.items) :
             fav.items[i] = id /\ \A j \in 1..(i - 1) : fav.items[j] # id
  IN [fav EXCEPT !.items = SubSeq(@, 1, k - 1) \o SubSeq(@, k + 1, Len(@))]

\* JSON.stringify of an array of strings
JsonStringify(items) == <<"[">> \o StringifyItems(items) \o <<"]">>

\* the text between the brackets is a comma separated list of strings
IsElementList(inner) ==
  \/ inner = <<>>
  \/ /\ Len(inner) % 2 = 1
     /\ \A i \in 1..Len(inner) :
          IF i % 2 = 1 THEN inner[i] \notin Punctuation ELSE inner[i] = ","

\* JSON.parse: the value, or kind "error" when it throws
JsonParse(text) ==
  IF text = <<"null">> THEN [kind |-> "null", items |-> <<>>]
  ELSE IF text = <<"7">> THEN [kind |-> "number", items |-> <<>>]
  ELSE IF text = <<"{", "}">> THEN [kind |-> "object", items |-> <<>>]
  ELSE IF /\ Len(text) >= 2 /\ text[1] = "[" /\ text[Len(text)] = "]"
          /\ IsElementList(SubSeq(text, 2, Len(text) - 1))
       THEN LET inner == SubSeq(text, 2, Len(text) - 1)
            IN [kind |-> "array",
                items |-> [i \in 1..((Len(inner) + 1) \div 2) |->
                             inner[2 * i - 1]]]
       ELSE [kind |-> "error", items |-> <<>>]

\* localStorage.getItem(key) || "[]"
GetItemOrDefault(st) ==
  IF st.present /\ st.text # <<>> THEN st.text ELSE <<"[", "]">>

LoadFavorites(st) ==
  LET v == JsonParse(GetItemOrDefault(st))
  IN IF v.kind = "error" THEN [kind |-> "array", items |-> <<>>] ELSE v

\* faulty variant: saveFavorites that writes under another key, leaving the
\* entry of the favorites key as it was
SaveFavoritesOtherKey(fav) == storage

SaveFavorites(fav) == [present |-> TRUE, text |-> JsonStringify(fav.items)]

\* faulty variant: a membership test that looks at the first element only
IncludesFirstOnly(items, id) == Len(items) > 0 /\ items[1] = id

Includes(items, id) == \E i \in 1..Len(items) : items[i] = id

\* faulty variant: addFavorite that replaces the list by the new identifier
AddFavoriteReplace(fav, id) == [fav EXCEPT !.items = <<id>>]

AddFavorite(fav, id) == [fav EXCEPT !.items = Append(@, id)]

RemoveFavorite(fav, id) ==
  [fav EXCEPT !.items = SelectSeq(@, LAMBDA x : x # id)]

\* updateButtonStates, run by the constructor
InitialActive(fav) ==
  {b \in Buttons : CardId(b) # "" /\ Includes(fav.items, CardId(b))}

RECURSIVE SeqsUpTo(_, _)
SeqsUpTo(S, n) ==
  IF n = 0 THEN {<<>>}
  ELSE LET shorter == SeqsUpTo(S, n - 1)
       IN shorter \cup {Append(q, x) : q \in shorter, x \in S}

\* what the favorites key may hold when the page loads
StoredValues ==
  {[present |-> FALSE, text |-> <<>>]}
    \cup {[present |-> TRUE, text |-> JsonStringify(q)] :
            q \in SeqsUpTo(Ids, MaxStored)}
    \cup {[present |-> TRUE, text |-> x] :
            x \in {<<"null">>, <<"7">>, <<"{", "}">>, <<"oops">>,
                   <<"[", "m1">>}}

InitFav ==
  /\ page = InitPage("absent", "absent")
  /\ frameLeft = 0
  /\ resizeTimer = [armed |-> FALSE, elapsed |-> 0]
  /\ last = Event("load", InitPage("absent", "absent"), 0)
  /\ toggles = [widget |-> "none", count |-> 0]
  /\ storage \in StoredValues
  /\ favorites = LoadFavorites(storage)
  /\ active = IF favorites.kind = "array" THEN InitialActive(favorites)
              ELSE {}
  /\ toasts = <<>>
  /\ favThrown = (favorites.kind # "array")
  /\ favLog = <<>>
  /\ ImgInitIdle
  /\ OtherInitIdle

\* click on favorite button b: toggleFavorite(b) with identifier id
ToggleFavorite(b, id) ==
  /\ Len(favLog) < MaxClicks
  /\ favLog' = Append(favLog, [id |-> id, button |-> b,
                               before |-> storage, mem |-> favorites,
                               act |-> active])
  /\ IF favorites.kind # "array"
     THEN /\ favThrown' = TRUE
          /\ UNCHANGED <<favorites, storage, active, toasts>>
     ELSE IF Includes(favorites.items, id)
     THEN /\ favorites' = RemoveFavorite(favorites, id)
          /\ storage' = SaveFavorites(RemoveFavorite(favorites, id))
          /\ active' = active \ {b}
          /\ toasts' = Append(toasts, "Removed from favorites")
          /\ UNCHANGED favThrown
     ELSE /\ favorites' = AddFavorite(favorites, id)
          /\ storage' = SaveFavorites(AddFavorite(favorites, id))
          /\ active' = active \cup {b}
          /\ toasts' = Append(toasts, "Added to favorites")
          /\ UNCHANGED favThrown
  /\ UNCHANGED <<uiVars, imgVars, otherVars>>

FavoriteClick ==
  \E b \in Buttons :
    \E id \in (IF CardId(b) # "" THEN {CardId(b)} ELSE RandomIds) :
      ToggleFavorite(b, id)

NextFav == FavoriteClick

SpecFav == InitFav /\ [][NextFav]_vars

(***************************************************************************)
(* ImageLoader.  An img element's src property is always an absolute URL;  *)
(* its data-src attribute is the text written in the page.                 *)
(***************************************************************************)
Imgs == {"i1", "i2"}

PlaceholderUrl == "https://site/ph.gif"

\* the data: URI loadImage substitutes when the load fails
ErrorPlaceholder == "data:image/svg+xml;base64"

\* data-src attribute values, "" when the attribute is missing
DataSrcValues == {"", "a.jpg", "/a.jpg", "b.jpg"}

SrcValues == {PlaceholderUrl, "https://site/a.jpg"}

\* URL resolution against the page's base URL https://site/
ResolveUrl(raw) ==
  CASE raw = "a.jpg" -> "https://site/a.jpg"
    [] raw = "/a.jpg" -> "https://site/a.jpg"
    [] raw = "b.jpg" -> "https://site/b.jpg"
    [] OTHER -> raw

\* img.dataset.src || img.src, as the temporary image's src reads back
ResolvedUrl(im) == IF im.dataSrc # "" THEN ResolveUrl(im.dataSrc) ELSE im.src

InitImg ==
  /\ page = InitPage("absent", "absent")
  /\ frameLeft = 0
  /\ resizeTimer = [armed |-> FALSE, elapsed |-> 0]
  /\ last = Event("load", InitPage("absent", "absent"), 0)
  /\ toggles = [widget |-> "none", count |-> 0]
  /\ FavInitIdle
  /\ images \in [Imgs -> [src : SrcValues, dataSrc : DataSrcValues,
                          loaded : {FALSE}, error : {FALSE}]]
  /\ loadedImages = {}
  /\ inflight = {}
  /\ fetches = <<>>
  /\ loadCalls = 0
  /\ OtherInitIdle

\* the guard of loadImage: the element's current src is in loadedImages
AlreadyLoaded(im, done) == im.src \in done

\* the body of loadImage: return when the guard holds, else create the
\* temporary image and start its fetch
StartLoad(e) ==
  IF AlreadyLoaded(images[e], loadedImages)
  THEN UNCHANGED <<inflight, fetches>>
  ELSE /\ inflight' = inflight \cup
             {[n |-> Len(fetches) + 1, img |-> e,
               src |-> ResolvedUrl(images[e])]}
       /\ fetches' = Append(fetches, ResolvedUrl(images[e]))

\* loadImage(img)
LoadImage(e) ==
  /\ loadCalls < MaxLoads
  /\ loadCalls' = loadCalls + 1
  /\ StartLoad(e)
  /\ UNCHANGED <<images, loadedImages, uiVars, favVars, otherVars>>

\* tempImg.onload
ImageOnLoad(tmp) ==
  /\ tmp \in inflight
  /\ inflight' = inflight \ {tmp}
  /\ images' = [images EXCEPT ![tmp.img].src = tmp.src,
                              ![tmp.img].loaded = TRUE]
  /\ loadedImages' = loadedImages \cup {tmp.src}
  /\ UNCHANGED <<fetches, loadCalls, uiVars, favVars, otherVars>>

\* faulty variant: an onerror handler that records the URL as resolved
ImageOnErrorRecords(tmp) ==
  /\ tmp \in inflight
  /\ inflight' = inflight \ {tmp}
  /\ images' = [images EXCEPT ![tmp.img].src = ErrorPlaceholder,
                              ![tmp.img].error = TRUE]
  /\ loadedImages' = loadedImages \cup {tmp.src}
  /\ UNCHANGED <<fetches, loadCalls, uiVars, favVars, otherVars>>

\* tempImg.onerror
ImageOnError(tmp) ==
  /\ tmp \in inflight
  /\ inflight' = inflight \ {tmp}
  /\ images' = [images EXCEPT ![tmp.img].src = ErrorPlaceholder,
                              ![tmp.img].error = TRUE]
  /\ UNCHANGED <<loadedImages, fetches, loadCalls, uiVars, favVars, otherVars>>

NextImg ==
  \/ \E e \in Imgs : LoadImage(e)
  \/ \E tmp \in inflight : ImageOnLoad(tmp)
  \/ \E tmp \in inflight : ImageOnError(tmp)

SpecImg == InitImg /\ [][NextImg]_vars

(***************************************************************************)
(* Lazy loading.  setupLazyLoading observes every img[loading="lazy"] with *)
(* one IntersectionObserver; the observer runs its callback with an entry  *)
(* for an observed element whenever the element starts or stops            *)
(* intersecting the viewport.  An error thrown by the callback is reported *)
(* and leaves the observer and its targets as they were.                   *)
(***************************************************************************)
MaxIntersections == 2

\* the value of this.imageLoader on the ModelArena instance: the constructor
\* and initializeComponents assign this.components.imageLoader only
AppImageLoader == "undefined"

InitLazy ==
  /\ page = InitPage("absent", "absent")
  /\ frameLeft = 0
  /\ resizeTimer = [armed |-> FALSE, elapsed |-> 0]
  /\ last = Event("load", InitPage("absent", "absent"), 0)
  /\ toggles = [widget |-> "none", count |-> 0]
  /\ FavInitIdle
  /\ images \in [Imgs -> [src : SrcValues, dataSrc : DataSrcValues,
                          loaded : {FALSE}, error : {FALSE}]]
  /\ loadedImages = {}
  /\ inflight = {}
  /\ fetches = <<>>
  /\ loadCalls = 0
  /\ \E lz \in SUBSET Imgs :
       lazy = [observed |-> lz, inView |-> {}, hits |-> [e \in Imgs |-> 0],
               loads |-> [e \in Imgs |-> 0], thrown |-> 0]
  /\ SearchInitIdle
  /\ DomInitIdle
  /\ LaterInitIdle

\* the observer callback with one entry whose isIntersecting is true
EnterViewport(e) ==
  /\ e \in lazy.observed
  /\ e \notin lazy.inView
  /\ lazy.hits[e] < MaxIntersections
  /\ IF AppImageLoader = "undefined"
     THEN \* this.imageLoader.loadImage raises a TypeError; unobserve is
          \* not reached
          /\ lazy' = [lazy EXCEPT !.inView = @ \cup {e},
                                  !.hits[e] = @ + 1,
                                  !.thrown = @ + 1]
          /\ UNCHANGED <<inflight, fetches, loadCalls>>
     ELSE /\ loadCalls' = loadCalls + 1
          /\ StartLoad(e)
          /\ lazy' = [lazy EXCEPT !.inView = @ \cup {e},
                                  !.hits[e] = @ + 1,
                                  !.loads[e] = @ + 1,
                                  !.observed = @ \ {e}]
  /\ UNCHANGED <<images, loadedImages, uiVars, favVars, search, dom, laterVars>>

\* the observer callback with one entry whose isIntersecting is false
LeaveViewport(e) ==
  /\ e \in lazy.observed
  /\ e \in lazy.inView
  /\ lazy' = [lazy EXCEPT !.inView = @ \ {e}]
  /\ UNCHANGED <<uiVars, favVars, imgVars, search, dom, laterVars>>

NextLazy ==
  \/ \E e \in Imgs : EnterViewport(e)
  \/ \E e \in Imgs : LeaveViewport(e)

SpecLazy == InitLazy /\ [][NextLazy]_vars

(***************************************************************************)
(* SearchForm.  The value of the search input is a sequence of             *)
(* characters; String.prototype.trim removes the white space at both ends. *)
(* search.log records, per handler run, the value the handler read, the    *)
(* state it left and the calls it made.                                    *)
(***************************************************************************)
MaxInput == 4

MaxSearchEvents == 3

Whitespace == {" "}

Chars == {" ", "a"}

RECURSIVE TrimStart(_)
TrimStart(v) ==
  IF v # <<>> /\ Head(v) \in Whitespace THEN TrimStart(Tail(v)) ELSE v

RECURSIVE TrimEnd(_)
TrimEnd(v) ==
  IF v # <<>> /\ v[Len(v)] \in Whitespace
  THEN TrimEnd(SubSeq(v, 1, Len(v) - 1))
  ELSE v

Trim(v) == TrimEnd(TrimStart(v))

\* the query length above which suggestions are shown
SuggestionThreshold == 2

\* the state a handler leaves, with its run appended to the history
Handled(s, ev, after, focus, calls) ==
  [value |-> after, focused |-> focus,
   log |-> Append(s.log, [ev |-> ev, value |-> s.value, after |-> after,
                          focusBefore |-> s.focused, focusAfter |-> focus,
                          calls |-> calls])]

\* faulty variant: handleSearch without trim
HandleSearchUntrimmed(s) ==
  IF s.value # <<>>
  THEN Handled(s, "submit", s.value, s.focused,
               <<[fn |-> "showSearchResults", arg |-> s.value]>>)
  ELSE Handled(s, "submit", s.value, s.focused, <<>>)

\* handleSearch
HandleSearch(s) ==
  LET query == Trim(s.value)
  IN IF query # <<>>
     THEN Handled(s, "submit", s.value, s.focused,
                  <<[fn |-> "showSearchResults", arg |-> query]>>)
     ELSE Handled(s, "submit", s.value, s.focused, <<>>)

\* faulty variant: suggestions from SuggestionThreshold characters on
HandleSearchInputFromThreshold(s) ==
  LET query == Trim(s.value)
  IN IF Len(query) >= SuggestionThreshold
     THEN Handled(s, "input", s.value, s.focused,
                  <<[fn |-> "showSuggestions", arg |-> query]>>)
     ELSE Handled(s, "input", s.value, s.focused,
                  <<[fn |-> "hideSuggestions", arg |-> <<>>]>>)

\* handleSearchInput
HandleSearchInput(s) ==
  LET query == Trim(s.value)
  IN IF Len(query) > SuggestionThreshold
     THEN Handled(s, "input", s.value, s.focused,
                  <<[fn |-> "showSuggestions", arg |-> query]>>)
     ELSE Handled(s, "input", s.value, s.focused,
                  <<[fn |-> "hideSuggestions", arg |-> <<>>]>>)

\* faulty variant: clearSearch that empties the input and keeps the focus
ClearSearchKeepsFocus(s) ==
  Handled(s, "escape", <<>>, s.focused,
          <<[fn |-> "hideSuggestions", arg |-> <<>>]>>)

\* clearSearch
ClearSearch(s) ==
  Handled(s, "escape", <<>>, FALSE,
          <<[fn |-> "hideSuggestions", arg |-> <<>>]>>)

\* the value the input holds when the page loads (the browser restores what
\* was typed before a reload)
InitSearch ==
  /\ page = InitPage("absent", "absent")
  /\ frameLeft = 0
  /\ resizeTimer = [armed |-> FALSE, elapsed |-> 0]
  /\ last = Event("load", InitPage("absent", "absent"), 0)
  /\ toggles = [widget |-> "none", count |-> 0]
  /\ FavInitIdle
  /\ ImgInitIdle
  /\ LazyInitIdle
  /\ \E v \in SeqsUpTo(Chars, MaxInput) :
       search = [value |-> v, focused |-> FALSE, log |-> <<>>]
  /\ DomInitIdle
  /\ LaterInitIdle

\* a click into the search input
SearchFocus ==
  /\ ~search.focused
  /\ search' = [search EXCEPT !.focused = TRUE]
  /\ UNCHANGED <<uiVars, favVars, imgVars, lazy, dom, laterVars>>

\* a key press that appends the character c: the input event
SearchType(c) ==
  /\ search.focused
  /\ Len(search.value) < MaxInput
  /\ Len(search.log) < MaxSearchEvents
  /\ search' = HandleSearchInput([search EXCEPT !.value = Append(@, c)])
  /\ UNCHANGED <<uiVars, favVars, imgVars, lazy, dom, laterVars>>

\* the backspace key: the input event
SearchBackspace ==
  /\ search.focused
  /\ search.value # <<>>
  /\ Len(search.log) < MaxSearchEvents
  /\ search' = HandleSearchInput(
                  [search EXCEPT !.value = SubSeq(@, 1, Len(@) - 1)])
  /\ UNCHANGED <<uiVars, favVars, imgVars, lazy, dom, laterVars>>

\* the submit event of the search form
SearchSubmit ==
  /\ Len(search.log) < MaxSearchEvents
  /\ search' = HandleSearch(search)
  /\ UNCHANGED <<uiVars, favVars, imgVars, lazy, dom, laterVars>>

\* the Escape key pressed in the search input: the keydown listener of the
\* input, then the keydown listener of the document
SearchEscape ==
  /\ search.focused
  /\ Len(search.log) < MaxSearchEvents
  /\ search' = ClearSearch(search)
  /\ page' = EscapeHandlers(page)
  /\ UNCHANGED <<frameLeft, resizeTimer, last, toggles, favVars, imgVars,
                 lazy, dom, laterVars>>

NextSearch ==
  \/ SearchFocus
  \/ \E c \in Chars : SearchType(c)
  \/ SearchBackspace
  \/ SearchSubmit
  \/ SearchEscape

SpecSearch == InitSearch /\ [][NextSearch]_vars

(***************************************************************************)
(* Missing elements.  dom.present is the set of target elements the        *)
(* document holds when the widgets are constructed; a lookup of an absent  *)
(* element yields null.  dom.thrown collects the places where an error was *)
(* raised.  Fields of the page record that belong to an absent element     *)
(* keep their initial values.                                              *)
(***************************************************************************)
MaxDomEvents == 2

\* initializeComponents: which widgets are constructed and bound
HasMenu(P) == {"menuToggle", "mobileNav"} \subseteq P

HasSearch(P) == {"searchToggle", "searchField"} \subseteq P

HasAuth(P) == {"loginModal", "signupModal"} \subseteq P

TagBound(P) == {"tagModal", "addTagBtn"} \subseteq P

\* SearchForm.bindEvents dereferences this.searchInput
SearchFormThrows(P) == "searchForm" \in P /\ "searchInput" \notin P

\* ModelArena.init ran to its end: bindEvents follows initializeComponents
InitCompleted(P) == ~SearchFormThrows(P)

\* the element a click target is, or lies in ("" when none of Elements)
TargetElement(t) ==
  CASE t = "menuToggle" -> "menuToggle"
    [] t \in {"nav", "navLink"} -> "mobileNav"
    [] t = "searchToggle" -> "searchToggle"
    [] t = "searchField" -> "searchField"
    [] t \in {"loginClose", "openSignupLink", "loginBackdrop"} -> "loginModal"
    [] t \in {"signupClose", "openLoginLink", "signupBackdrop"}
         -> "signupModal"
    [] t = "addTagBtn" -> "addTagBtn"
    [] t \in {"tagCloseBtn", "tagConfirmBtn", "tagBackdrop"} -> "tagModal"
    [] t = "pwToggle" -> "pwToggle"
    [] OTHER -> ""

DomTargets == Targets \cup {"pwToggle"}

\* MobileSearch reaches the menu toggle through this.menuToggle?.
KeepAbsent(s, P) ==
  IF "menuToggle" \in P THEN s ELSE [s EXCEPT !.menuToggleHidden = FALSE]

DomTargetListeners(s, t, v, P) ==
  CASE t \in {"menuToggle", "navLink"} ->
         IF HasMenu(P) THEN TargetListeners(s, t, v) ELSE s
    [] t = "searchToggle" ->
         IF HasSearch(P) THEN TargetListeners(s, t, v) ELSE s
    [] t \in {"addTagBtn", "tagCloseBtn", "tagConfirmBtn", "tagBackdrop"} ->
         IF TagBound(P) THEN TargetListeners(s, t, v) ELSE s
    [] OTHER -> s

DomClickHandlers(s, t, v, P) ==
  LET s1 == DomTargetListeners(s, t, v, P)
      s2 == IF HasMenu(P) THEN MenuDocumentClick(s1, t) ELSE s1
      s3 == IF HasSearch(P) THEN SearchDocumentClick(s2, t) ELSE s2
  IN IF HasAuth(P) THEN AuthDocumentClick(s3, t) ELSE s3

\* togglePasswordVisibility(input, toggle), bound when AuthModals exists
\* and the toggle is found
TogglePasswordVisibility(d) ==
  IF ~(HasAuth(d.present) /\ "pwToggle" \in d.present) THEN d
  ELSE IF "pwInput" \notin d.present
  THEN [d EXCEPT !.thrown = @ \cup {"togglePasswordVisibility: input"}]
  ELSE LET flipped == [d EXCEPT !.pwType = IF @ = "password" THEN "text"
                                           ELSE "password"]
       IN IF "pwIcon" \notin d.present
          THEN [flipped EXCEPT
                  !.thrown = @ \cup {"togglePasswordVisibility: svg"}]
          ELSE flipped

DomEscapeHandlers(s, P) ==
  LET s1 == IF TagBound(P) THEN TagEscape(s) ELSE s
      s2 == TagClose(SearchClose(MenuClose(s1)))
  IN IF ~InitCompleted(P) THEN s1
     ELSE IF HasAuth(P) THEN CloseAll(s2) ELSE s2

\* the widgets are constructed over every combination of present elements
InitDom ==
  /\ page = InitPage("absent", "absent")
  /\ frameLeft = 0
  /\ resizeTimer = [armed |-> FALSE, elapsed |-> 0]
  /\ last = Event("load", InitPage("absent", "absent"), 0)
  /\ toggles = [widget |-> "none", count |-> 0]
  /\ FavInitIdle
  /\ ImgInitIdle
  /\ LazyInitIdle
  /\ SearchInitIdle
  /\ LaterInitIdle
  /\ \E P \in SUBSET Elements :
       dom = [present |-> P,
              thrown |-> IF SearchFormThrows(P) THEN {"SearchForm.bindEvents"}
                         ELSE {},
              pwType |-> "password",
              events |-> 0]

DomClick(t) ==
  /\ CanDeliver
  /\ dom.events < MaxDomEvents
  /\ TargetElement(t) \in dom.present \cup {""}
  /\ \E v \in {"", "tag"} :
       /\ t # "tagConfirmBtn" => v = ""
       /\ page' = KeepAbsent(DomClickHandlers(page, t, v, dom.present),
                             dom.present)
  /\ dom' = [(IF t = "pwToggle" THEN TogglePasswordVisibility(dom) ELSE dom)
               EXCEPT !.events = @ + 1]
  /\ UNCHANGED <<frameLeft, resizeTimer, last, toggles, favVars, imgVars,
                 lazy, search, laterVars>>

DomEscape ==
  /\ CanDeliver
  /\ dom.events < MaxDomEvents
  /\ page' = DomEscapeHandlers(page, dom.present)
  /\ dom' = [dom EXCEPT !.events = @ + 1]
  /\ UNCHANGED <<frameLeft, resizeTimer, last, toggles, favVars, imgVars,
                 lazy, search, laterVars>>

\* the resize listener is bound by ModelArena.bindEvents
DomResize ==
  /\ frameLeft = 0
  /\ dom.events < MaxDomEvents
  /\ InitCompleted(dom.present)
  /\ resizeTimer' = DebouncedResize(resizeTimer)
  /\ dom' = [dom EXCEPT !.events = @ + 1]
  /\ UNCHANGED <<page, frameLeft, last, toggles, favVars, imgVars,
                 lazy, search, laterVars>>

\* an animation-frame callback; callbacks touch the elements of widgets
\* that exist, and the menu toggle through ?.
DomAnimationFrame ==
  /\ page.raf # <<>>
  /\ LET n == IF frameLeft = 0 THEN Len(page.raf) ELSE frameLeft
     IN /\ page' = KeepAbsent(
                     RunCallback([page EXCEPT !.raf = Tail(@)],
                                 Head(page.raf)), dom.present)
        /\ frameLeft' = n - 1
  /\ UNCHANGED <<resizeTimer, last, toggles, favVars, imgVars, otherVars>>

NextDom ==
  \/ \E t \in DomTargets : DomClick(t)
  \/ DomEscape
  \/ DomResize
  \/ Tick
  \/ ResizeTimeout
  \/ DomAnimationFrame

SpecDom == InitDom /\ [][NextDom]_vars

(***************************************************************************)
(* Form validation (ModelArena.setupFormValidation).  A form holds         *)
(* required fields, listed in document order; each field lies in a parent  *)
(* element.  form.invalid is the set of fields carrying the class          *)
(* is-invalid; form.errors is the set of parent elements that hold a       *)
(* .form-error element (its text is always "This field is required").      *)
(***************************************************************************)
MaxSubmits == 2

Fields == <<"f1", "f2", "f3">>

FieldSet == {Fields[i] : i \in 1..Len(Fields)}

Parents == {"p1", "p2"}

FieldValues == {<<>>, <<" ">>, <<"a">>}

InitAllIdle ==
  /\ page = InitPage("absent", "absent")
  /\ frameLeft = 0
  /\ resizeTimer = [armed |-> FALSE, elapsed |-> 0]
  /\ last = Event("load", InitPage("absent", "absent"), 0)
  /\ toggles = [widget |-> "none", count |-> 0]
  /\ FavInitIdle
  /\ ImgInitIdle
  /\ LazyInitIdle
  /\ SearchInitIdle
  /\ DomInitIdle

\* showValidationError(input, message)
ShowValidationError(fm, f) ==
  [fm EXCEPT !.invalid = @ \cup {f},
             !.errors = @ \cup {fm.parent[f]}]

\* clearValidationError(input)
ClearValidationError(fm, f) ==
  [fm EXCEPT !.invalid = @ \ {f},
             !.errors = @ \ {fm.parent[f]}]

\* the loop of validateForm from the i-th required field on; blocked is
\* the negation of isValid
RECURSIVE ValidateFrom(_, _)
ValidateFrom(fm, i) ==
  IF i > Len(Fields) THEN fm
  ELSE IF Trim(fm.values[Fields[i]]) = <<>>
       THEN ValidateFrom(
              [ShowValidationError(fm, Fields[i]) EXCEPT !.blocked = TRUE],
              i + 1)
       ELSE ValidateFrom(ClearValidationError(fm, Fields[i]), i + 1)

\* validateForm(form)
ValidateForm(fm) == ValidateFrom([fm EXCEPT !.blocked = FALSE], 1)

InitForm ==
  /\ InitAllIdle
  /\ SwInitIdle /\ DeployInitIdle /\ TabsInitIdle /\ LastInitIdle
  /\ \E vs \in [FieldSet -> FieldValues], ps \in [FieldSet -> Parents] :
       form = [values |-> vs, parent |-> ps, invalid |-> {}, errors |-> {},
               submits |-> 0, blocked |-> FALSE, fresh |-> FALSE]

\* the submit listener: preventDefault unless validateForm returns true
FormSubmit ==
  /\ form.submits < MaxSubmits
  /\ form' = [ValidateForm(form) EXCEPT !.submits = @ + 1, !.fresh = TRUE]
  /\ UNCHANGED <<baseVars, lastVars, sw, deploy, tabs>>

\* the user changes the value of a field
FormEdit(f, v) ==
  /\ form.values[f] # v
  /\ form' = [form EXCEPT !.values[f] = v, !.fresh = FALSE]
  /\ UNCHANGED <<baseVars, lastVars, sw, deploy, tabs>>

NextForm ==
  \/ FormSubmit
  \/ \E f \in FieldSet, v \in FieldValues : FormEdit(f, v)

SpecForm == InitForm /\ [][NextForm]_vars

(***************************************************************************)
(* Service worker (sw.js).  sw.cache is the content of the cache named     *)
(* CACHE_NAME, sw.others the content of the caches of other names (left by *)
(* an earlier version); caches.match looks in all of them.  sw.names are   *)
(* the names of the caches that exist, sw.deleted those activate deleted.  *)
(* sw.body tells which response the cache holds for a URL: 0 the one       *)
(* stored at install, k the one the network gave to the k-th fetch event.  *)
(* sw.puts holds the cache.put calls started and not yet finished.  A      *)
(* fetch event is dispatched to an activated worker only.  sw.log records  *)
(* each fetch event: the request, whether a cache held it, what the        *)
(* network did and how the event was answered.                             *)
(***************************************************************************)
MaxRequests == 2

CacheName == "modelarena-v1.0.0"

\* names of caches found in the origin's storage when the worker installs
OtherCacheNames == {"modelarena-v0.9.0", "another-cache"}

StaticAssets ==
  {"/", "/index.html", "/dist/css/style.css", "/js/main.js",
   "/assets/images/logo.svg", "/assets/images/favicon.png"}

ShellPage == "/index.html"

RequestUrls == {"/index.html", "/about.html", "/api/models"}

Requests ==
  [url : RequestUrls, method : {"GET", "POST"}, sameOrigin : BOOLEAN,
   destination : {"document", ""}]

NetworkOutcomes == {"200", "404", "fail"}

InitSw ==
  /\ InitAllIdle
  /\ FormInitIdle /\ DeployInitIdle /\ TabsInitIdle /\ LastInitIdle
  /\ \E ns \in SUBSET OtherCacheNames, old \in SUBSET {"/about.html"} :
       /\ ns = {} => old = {}
       /\ sw = [phase |-> "installing", names |-> ns, deleted |-> {},
                cache |-> {},
                body |-> [u \in StaticAssets \cup RequestUrls |-> 0],
                others |-> old, puts |-> {}, fetched |-> {}, log |-> <<>>]

\* faulty variant: an install that stores what it could fetch and goes on
SwInstallLenient ==
  /\ sw.phase = "installing"
  /\ \E ok \in SUBSET StaticAssets :
       sw' = [sw EXCEPT !.fetched = ok, !.cache = @ \cup ok,
                        !.names = @ \cup {CacheName},
                        !.phase = "installed"]
  /\ UNCHANGED <<baseVars, lastVars, form, deploy, tabs>>

\* the install event: cache.addAll(STATIC_ASSETS) stores all the assets or,
\* when one of them cannot be fetched, none; waitUntil then fails the install
SwInstall ==
  /\ sw.phase = "installing"
  /\ \E ok \in SUBSET StaticAssets :
       sw' = IF ok = StaticAssets
             THEN [sw EXCEPT !.fetched = ok, !.cache = @ \cup StaticAssets,
                             !.names = @ \cup {CacheName},
                             !.phase = "installed"]
             ELSE [sw EXCEPT !.fetched = ok, !.names = @ \cup {CacheName},
                             !.phase = "redundant"]
  /\ UNCHANGED <<baseVars, lastVars, form, deploy, tabs>>

\* faulty variant: an activate that deletes no cache
SwActivateKeepsAll ==
  /\ sw.phase = "installed"
  /\ sw' = [sw EXCEPT !.phase = "activated"]
  /\ UNCHANGED <<baseVars, lastVars, form, deploy, tabs>>

\* the activate event: every cache of another name is deleted
SwActivate ==
  /\ sw.phase = "installed"
  /\ LET gone == {n \in sw.names : n # CacheName}
     IN sw' = [sw EXCEPT !.phase = "activated",
                         !.names = @ \ gone, !.deleted = gone,
                         !.others = IF gone = {} THEN @ ELSE {}]
  /\ UNCHANGED <<baseVars, lastVars, form, deploy, tabs>>

\* what the fetch listener answers; "browser" when respondWith is not
\* called, "none" when the promise given to respondWith yields undefined
Answer(req, cached, shell, net) ==
  IF req.method # "GET" \/ ~req.sameOrigin THEN "browser"
  ELSE IF cached THEN "cache"
  ELSE IF net # "fail" THEN "network"
  ELSE IF req.destination = "document"
       THEN IF shell THEN "shell" ELSE "none"
       ELSE "none"

\* the fetch event for the request req, the network behaving as net
SwFetch(req, net) ==
  /\ sw.phase = "activated"
  /\ Len(sw.log) < MaxRequests
  /\ LET all == sw.cache \cup sw.others
         cached == req.url \in all
         ans == Answer(req, cached, ShellPage \in all, net)
     IN sw' = [sw EXCEPT
                 !.puts = IF ans = "network" /\ net = "200"
                          THEN @ \cup {[url |-> req.url,
                                        ev |-> Len(sw.log) + 1]}
                          ELSE @,
                 !.log = Append(@, [req |-> req, cached |-> cached,
                                    net |-> IF ans \in {"browser", "cache"}
                                            THEN "unused" ELSE net,
                                    answer |-> ans])]
  /\ UNCHANGED <<baseVars, lastVars, form, deploy, tabs>>

\* cache.put(event.request, responseClone) finishes
SwPut(p) ==
  /\ p \in sw.puts
  /\ sw' = [sw EXCEPT !.puts = @ \ {p}, !.cache = @ \cup {p.url},
                      !.body[p.url] = p.ev,
                      !.names = @ \cup {CacheName}]
  /\ UNCHANGED <<baseVars, lastVars, form, deploy, tabs>>

NextSw ==
  \/ SwInstall
  \/ SwActivate
  \/ \E req \in Requests, net \in NetworkOutcomes : SwFetch(req, net)
  \/ \E p \in [url : RequestUrls, ev : 1..MaxRequests] : SwPut(p)

SpecSw == InitSw /\ [][NextSw]_vars

(***************************************************************************)
(* Publish script (scripts/deploy.js, GitHubPagesDeployer).  A file of the *)
(* repository has a content version in the working tree, in the index, in  *)
(* HEAD and on origin/main.  git status --porcelain prints something when  *)
(* the working tree differs from the index or the index from HEAD; git add *)
(* copies the working tree to the index; git commit stores the index (and  *)
(* fails when the index equals HEAD); git push sends HEAD.  The build      *)
(* writes the build output.  deploy.log lists the commands that ran.       *)
(***************************************************************************)
MaxVersion == 2

Versions == 0..MaxVersion

Files == {"source", "output"}

Dirty(d) ==
  \E f \in Files : d.work[f] # d.index[f] \/ d.index[f] # d.head[f]

InitDeploy ==
  /\ InitAllIdle
  /\ FormInitIdle /\ SwInitIdle /\ TabsInitIdle /\ LastInitIdle
  /\ \E w \in [Files -> Versions], i \in [Files -> Versions] :
       deploy = [pc |-> "start", work |-> w, index |-> i,
                 head |-> [f \in Files |-> 0],
                 remote |-> [f \in Files |-> 0],
                 log |-> <<>>, failedAt |-> "none", changed |-> "unknown",
                 exit |-> "none"]

\* the catch block of deploy(): the step named by step has thrown, the
\* failure message is printed and process.exit(1) ends the run
DeployFailed(d, step) ==
  [d EXCEPT !.pc = "failed", !.failedAt = step, !.exit = "1"]

\* checkGitStatus: git status, then git add when it printed something;
\* either command may fail
CheckGitStatus ==
  /\ deploy.pc = "start"
  /\ \/ deploy' = IF Dirty(deploy)
                  THEN [deploy EXCEPT !.pc = "checked",
                                      !.index = deploy.work,
                                      !.log = Append(@, "add")]
                  ELSE [deploy EXCEPT !.pc = "checked"]
     \/ deploy' = DeployFailed(deploy, "status")
  /\ UNCHANGED <<baseVars, lastVars, form, sw, tabs>>

\* faulty variant: buildProject that reports a failed build and returns
BuildProjectGoesOn ==
  /\ deploy.pc = "checked"
  /\ \/ \E out \in Versions :
          deploy' = [deploy EXCEPT !.pc = "built", !.work["output"] = out,
                                   !.log = Append(@, "build")]
     \/ deploy' = [deploy EXCEPT !.pc = "built", !.failedAt = "build"]
  /\ UNCHANGED <<baseVars, lastVars, form, sw, tabs>>

\* buildProject: npm run build succeeds, writing the output, or fails
BuildProject ==
  /\ deploy.pc = "checked"
  /\ \/ \E out \in Versions :
          deploy' = [deploy EXCEPT !.pc = "built", !.work["output"] = out,
                                   !.log = Append(@, "build")]
     \/ deploy' = DeployFailed(deploy, "build")
  /\ UNCHANGED <<baseVars, lastVars, form, sw, tabs>>

\* the end of the try block of deploy(): the success message is printed and
\* the process ends with exit code 0
DeploySucceeded(d) ==
  [d EXCEPT !.pc = "done", !.exit = "0", !.log = Append(@, "success")]

\* whether git status --porcelain, run by commitAndPush, printed changes
StatusAfterBuild(d) == IF Dirty(d) THEN "changes" ELSE "clean"

\* faulty variant: commitAndPush that pushes whatever git status printed
CommitAndPushAlways ==
  /\ deploy.pc = "built"
  /\ deploy' = DeploySucceeded(
                 [deploy EXCEPT !.changed = StatusAfterBuild(deploy),
                                !.remote = deploy.head,
                                !.log = Append(@, "push")])
  /\ UNCHANGED <<baseVars, lastVars, form, sw, tabs>>

\* commitAndPush: git status; when it printed something git commit, which
\* fails when nothing is staged (and may fail otherwise), then git push,
\* which may fail
CommitAndPush ==
  /\ deploy.pc = "built"
  /\ LET d == [deploy EXCEPT !.changed = StatusAfterBuild(deploy)]
     IN \/ deploy' = DeployFailed(deploy, "commit status")
        \/ /\ ~Dirty(deploy)
           /\ deploy' = DeploySucceeded(d)
        \/ /\ Dirty(deploy)
           /\ deploy' = DeployFailed(d, "commit")
        \/ /\ Dirty(deploy) /\ deploy.index # deploy.head
           /\ \/ deploy' = DeploySucceeded(
                             [d EXCEPT !.head = deploy.index,
                                       !.remote = deploy.index,
                                       !.log = @ \o <<"commit", "push">>])
              \/ deploy' = DeployFailed(
                             [d EXCEPT !.head = deploy.index,
                                       !.log = Append(@, "commit")], "push")
  /\ UNCHANGED <<baseVars, lastVars, form, sw, tabs>>

NextDeploy ==
  \/ CheckGitStatus
  \/ BuildProject
  \/ CommitAndPush

SpecDeploy == InitDeploy /\ [][NextDeploy]_vars

(***************************************************************************)
(* Several page instances (tabs) of the same origin.  Each constructs its  *)
(* own FavoriteButtons, which reads the favorites key once and afterwards  *)
(* writes its whole in-memory list on every toggle.  A click handler runs  *)
(* to completion, so a toggle is one step.                                 *)
(***************************************************************************)
\* number of toggles made in all the tabs together
MaxTabToggles == 3

TabIds == {"t1", "t2"}

InitTabs ==
  /\ InitAllIdle
  /\ FormInitIdle /\ SwInitIdle /\ DeployInitIdle /\ LastInitIdle
  /\ \E st \in StoredValues :
       tabs = [store |-> st,
               mem |-> [t \in TabIds |->
                          [loaded |-> FALSE,
                           fav |-> [kind |-> "array", items |-> <<>>]]],
               ops |-> <<>>]

\* the page is opened in tab t: new FavoriteButtons()
TabOpen(t) ==
  /\ ~tabs.mem[t].loaded
  /\ tabs' = [tabs EXCEPT !.mem[t] = [loaded |-> TRUE,
                                      fav |-> LoadFavorites(tabs.store)]]
  /\ UNCHANGED <<baseVars, lastVars, form, sw, deploy>>

\* click on the favorite button of model id in tab t: toggleFavorite; with
\* a list that is not an array includes throws and no toggle completes
TabToggle(t, id) ==
  /\ tabs.mem[t].loaded
  /\ tabs.mem[t].fav.kind = "array"
  /\ Len(tabs.ops) < MaxTabToggles
  /\ LET fav == tabs.mem[t].fav
         removes == Includes(fav.items, id)
         after == IF removes THEN RemoveFavorite(fav, id)
                  ELSE AddFavorite(fav, id)
     IN tabs' = [tabs EXCEPT
                   !.mem[t].fav = after,
                   !.store = SaveFavorites(after),
                   !.ops = Append(@, [tab |-> t, id |-> id,
                                      kind |-> IF removes THEN "remove"
                                               ELSE "add"])]
  /\ UNCHANGED <<baseVars, lastVars, form, sw, deploy>>

NextTabs ==
  \/ \E t \in TabIds : TabOpen(t)
  \/ \E t \in TabIds, id \in Ids : TabToggle(t, id)

SpecTabs == InitTabs /\ [][NextTabs]_vars

(***************************************************************************)
(* The start of the application.  The document is parsed (readyState       *)
(* "loading"), becomes "interactive", fires DOMContentLoaded, and becomes  *)
(* "complete"; the script may run at any point of that, and animation      *)
(* frames run in between.                                                  *)
(***************************************************************************)
\* largest number of form elements and in-page links in the document
MaxElements == 2
\* number of further calls of window.modelArena.init()
MaxInitCalls == 1

\* setupPageFeatures: setupSmoothScroll binds a click listener to every
\* in-page link and setupFormValidation a submit listener to every form
\* that document.querySelectorAll finds, i.e. that has been parsed
SetupPageFeatures(b) ==
  [b EXCEPT !.features = @ + 1,
            !.handlers = [f \in 1..Len(b.doc) |->
                            IF f <= b.parsed THEN b.handlers[f] + 1
                            ELSE b.handlers[f]]]

\* the end of ModelArena.bindEvents
BindPageFeatures(b) ==
  IF b.ready = "loading"
  THEN [b EXCEPT !.listeners = Append(@, "features")]
  ELSE SetupPageFeatures(b)

\* faulty variant: init() without the isInitialized guard
ModelArenaInitUnguarded(b) ==
  [BindPageFeatures(b) EXCEPT !.isInitialized = TRUE, !.inits = @ + 1]

\* ModelArena.init
ModelArenaInit(b) ==
  IF b.isInitialized THEN b
  ELSE [BindPageFeatures(b) EXCEPT !.isInitialized = TRUE, !.inits = @ + 1]

\* window.modelArena = new ModelArena(): the constructor requests init
NewModelArena(b) ==
  [b EXCEPT !.apps = @ + 1, !.isInitialized = FALSE,
            !.raf = Append(@, "appInit")]

RunBootCallback(b, cb) ==
  CASE cb = "outerInit" -> NewModelArena(b)
    [] cb = "appInit" -> ModelArenaInit(b)

RECURSIVE RunListeners(_, _)
\* the DOMContentLoaded listeners registered before the event, in order
RunListeners(b, ls) ==
  IF ls = <<>> THEN b
  ELSE RunListeners(IF Head(ls) = "init" THEN NewModelArena(b)
                    ELSE SetupPageFeatures(b), Tail(ls))

InitBoot ==
  /\ InitAllIdle
  /\ FormInitIdle /\ SwInitIdle /\ DeployInitIdle /\ TabsInitIdle
  /\ BuildInitIdle
  /\ \E d \in SeqsUpTo({"form", "anchor"}, MaxElements) :
       boot = [ready |-> "loading", started |-> FALSE, fired |-> FALSE,
               listeners |-> <<>>, raf |-> <<>>, apps |-> 0,
               isInitialized |-> FALSE, inits |-> 0, features |-> 0,
               parsed |-> 0, doc |-> d,
               handlers |-> [f \in 1..Len(d) |-> 0],
               calls |-> 0]

\* the parser reaches the next form or in-page link
BootParse ==
  /\ boot.ready = "loading" /\ boot.parsed < Len(boot.doc)
  /\ boot' = [boot EXCEPT !.parsed = @ + 1]
  /\ UNCHANGED <<baseVars, form, sw, deploy, tabs, build>>

\* the parser has finished
BootInteractive ==
  /\ boot.ready = "loading" /\ boot.parsed = Len(boot.doc)
  /\ boot' = [boot EXCEPT !.ready = "interactive"]
  /\ UNCHANGED <<baseVars, form, sw, deploy, tabs, build>>

\* DOMContentLoaded: the listeners registered so far run; all are { once }
BootDomContentLoaded ==
  /\ boot.ready = "interactive" /\ ~boot.fired
  /\ boot' = RunListeners([boot EXCEPT !.fired = TRUE, !.listeners = <<>>],
                          boot.listeners)
  /\ UNCHANGED <<baseVars, form, sw, deploy, tabs, build>>

BootLoad ==
  /\ boot.ready = "interactive" /\ boot.fired
  /\ boot' = [boot EXCEPT !.ready = "complete"]
  /\ UNCHANGED <<baseVars, form, sw, deploy, tabs, build>>

\* the script's last statements run
BootScript ==
  /\ ~boot.started
  /\ boot' = IF boot.ready = "loading"
             THEN [boot EXCEPT !.started = TRUE,
                               !.listeners = Append(@, "init")]
             ELSE [boot EXCEPT !.started = TRUE,
                               !.raf = Append(@, "outerInit")]
  /\ UNCHANGED <<baseVars, form, sw, deploy, tabs, build>>

BootFrame ==
  /\ boot.raf # <<>>
  /\ boot' = RunBootCallback([boot EXCEPT !.raf = Tail(@)], Head(boot.raf))
  /\ UNCHANGED <<baseVars, form, sw, deploy, tabs, build>>

\* some other script calls window.modelArena.init()
BootInitAgain ==
  /\ boot.apps > 0 /\ boot.calls < MaxInitCalls
  /\ boot' = [ModelArenaInit(boot) EXCEPT !.calls = @ + 1]
  /\ UNCHANGED <<baseVars, form, sw, deploy, tabs, build>>

NextBoot ==
  \/ BootParse
  \/ BootInteractive
  \/ BootDomContentLoaded
  \/ BootLoad
  \/ BootScript
  \/ BootFrame
  \/ BootInitAgain

SpecBoot == InitBoot /\ [][NextBoot]_vars

(***************************************************************************)
(* Build script (scripts/deploy.js, Deployer).  build.dir is what the      *)
(* build directory dist/ holds, build.sources the files of the project     *)
(* root that the package step copies, build.html the state of index.html.  *)
(* build.out lists the steps that ran, each with its outcome.              *)
(***************************************************************************)
\* what a previous build left in the build directory
PreviousBuild == {"old css", "old package"}

\* files and directories of the project root named in filesToCopy
CopiedSources == {"index.html", "manifest.json", "sw.js", "js", "assets"}

DeploySteps == <<"clean", "css", "images", "html", "info", "package">>

\* the step that follows pc, "done" after the last
StepAfter(pc) ==
  IF pc = "package" THEN "done"
  ELSE LET k == CHOOSE i \in 1..Len(DeploySteps) : DeploySteps[i] = pc
       IN DeploySteps[k + 1]

\* a step has returned: the next statement of deploy() runs; after the last
\* the success message is printed and the process ends with exit code 0
StepReturned(b, step, ok) ==
  [b EXCEPT !.pc = StepAfter(step),
            !.out = Append(@, [step |-> step, ok |-> ok]),
            !.exit = IF step = "package" THEN "0" ELSE @]

\* a step has thrown: the catch block of deploy() calls process.exit(1)
StepThrew(b, step) ==
  [b EXCEPT !.pc = "failed",
            !.out = Append(@, [step |-> step, ok |-> FALSE]),
            !.exit = "1"]

InitBuild ==
  /\ InitAllIdle
  /\ FormInitIdle /\ SwInitIdle /\ DeployInitIdle /\ TabsInitIdle
  /\ BootInitIdle
  /\ \E old \in SUBSET PreviousBuild,
        h \in {"absent", "complete", "incomplete"},
        src \in SUBSET (CopiedSources \ {"index.html"}) :
       build = [pc |-> "clean", dir |-> old,
                sources |-> src \cup (IF h = "absent" THEN {}
                                      ELSE {"index.html"}),
                html |-> h, optimized |-> FALSE, out |-> <<>>,
                exit |-> "none"]

\* cleanBuild: rmSync of the build directory, then mkdirSync; when rmSync
\* throws, any part of the directory may be gone
CleanBuild ==
  /\ build.pc = "clean"
  /\ \/ build' = StepReturned([build EXCEPT !.dir = {}], "clean", TRUE)
     \/ \E rest \in SUBSET build.dir :
          build' = StepThrew([build EXCEPT !.dir = rest], "clean")
  /\ UNCHANGED <<baseVars, form, sw, deploy, tabs, boot>>

\* buildCSS: npm run build:css writes dist/css/style.css, or fails
BuildCSS ==
  /\ build.pc = "css"
  /\ \/ build' = StepReturned([build EXCEPT !.dir = @ \cup {"css"}],
                              "css", TRUE)
     \/ build' = StepThrew(build, "css")
  /\ UNCHANGED <<baseVars, form, sw, deploy, tabs, boot>>

\* faulty variant: optimizeImages that throws when the command fails
OptimizeImagesStrict ==
  /\ build.pc = "images"
  /\ \/ build' = StepReturned([build EXCEPT !.optimized = TRUE],
                              "images", TRUE)
     \/ build' = StepThrew(build, "images")
  /\ UNCHANGED <<baseVars, form, sw, deploy, tabs, boot>>

\* optimizeImages: a failure of npm run optimize:images is logged and
\* swallowed
OptimizeImages ==
  /\ build.pc = "images"
  /\ \/ build' = StepReturned([build EXCEPT !.optimized = TRUE],
                              "images", TRUE)
     \/ build' = StepReturned(build, "images", FALSE)
  /\ UNCHANGED <<baseVars, form, sw, deploy, tabs, boot>>

\* validateHTML: readFileSync throws when index.html is missing; a missing
\* tag is a warning
ValidateHTML ==
  /\ build.pc = "html"
  /\ build' = IF build.html = "absent" THEN StepThrew(build, "html")
              ELSE StepReturned(build, "html", TRUE)
  /\ UNCHANGED <<baseVars, form, sw, deploy, tabs, boot>>

\* generateBuildInfo: writeFileSync of build-info.json, which may throw
GenerateBuildInfo ==
  /\ build.pc = "info"
  /\ \/ build' = StepReturned([build EXCEPT !.dir = @ \cup {"build-info"}],
                              "info", TRUE)
     \/ build' = StepThrew(build, "info")
  /\ UNCHANGED <<baseVars, form, sw, deploy, tabs, boot>>

\* createDeploymentPackage: the sources that exist are copied, then
\* DEPLOYMENT.md is written; a copy may throw after some files were copied
CreateDeploymentPackage ==
  /\ build.pc = "package"
  /\ \/ build' = StepReturned(
                   [build EXCEPT !.dir = @ \cup build.sources
                                           \cup {"DEPLOYMENT.md"}],
                   "package", TRUE)
     \/ \E some \in SUBSET build.sources :
          build' = StepThrew([build EXCEPT !.dir = @ \cup some], "package")
  /\ UNCHANGED <<baseVars, form, sw, deploy, tabs, boot>>

NextBuild ==
  \/ CleanBuild
  \/ BuildCSS
  \/ OptimizeImages
  \/ ValidateHTML
  \/ GenerateBuildInfo
  \/ CreateDeploymentPackage

SpecBuild == InitBuild /\ [][NextBuild]_vars

(***************************************************************************)
(* Properties.                                                             *)
(***************************************************************************)
Idle == page.raf = <<>>

MenuShownOpen(s) == s.menuIsOpen /\ s.navOpenCls /\ ~s.navClosedCls

MenuShownClosed(s) == ~s.menuIsOpen /\ ~s.navOpenCls /\ s.navClosedCls

SearchShownOpen(s) == s.searchIsOpen /\ ~s.searchHidden

SearchShownClosed(s) == ~s.searchIsOpen /\ s.searchHidden

\* C1: when open() is called on one of mobile menu / mobile search while
\* the other one's isOpen flag is true, then once no animation-frame callback
\* is pending the other one is closed and the opened one is open, in the
\* flags and in the classes.
C1_OpenClosesTheOther ==
  Idle =>
    /\ (last.ev = "menuOpenCall" /\ "search" \in last.open)
         => (MenuShownOpen(page) /\ SearchShownClosed(page))
    /\ (last.ev = "searchOpenCall" /\ "menu" \in last.open)
         => (SearchShownOpen(page) /\ MenuShownClosed(page))

\* C2: for a widget that starts closed and sees only toggle() calls and
\* animation frames, isOpen is true exactly when the number of effective
\* toggles is odd.
C2_IsOpenIsParityOfEffectiveToggles ==
  /\ toggles.widget = "menu" => (page.menuIsOpen <=> toggles.count % 2 = 1)
  /\ toggles.widget = "search" => (page.searchIsOpen <=> toggles.count % 2 = 1)

C2_Witness ==
  /\ toggles.widget = "menu"
  /\ toggles.count = 3
  /\ last.ev = "toggle" /\ last.anim
  /\ page.menuIsOpen

\* the stored value after the i-th logged toggle
StoredAfter(i) == IF i < Len(favLog) THEN favLog[i + 1].before ELSE storage

\* the array a stored value loads as
LoadedItems(st) == LoadFavorites(st).items

ItemSet(items) == {items[i] : i \in 1..Len(items)}

\* the i-th and the next logged toggle are two calls in a row for one
\* identifier, made on a favorites list that loaded as an array
TogglePair(i) ==
  /\ i + 1 <= Len(favLog)
  /\ favLog[i].id = favLog[i + 1].id
  /\ favLog[i].mem.kind = "array"

\* C3 (as claimed): two toggles of one identifier in a row leave the stored
\* JSON array identical, element for element and in the same order.
C3_TwoTogglesRestoreStoredArray ==
  \A i \in 1..Len(favLog) :
    TogglePair(i) =>
      LoadedItems(StoredAfter(i + 1)) = LoadedItems(favLog[i].before)

\* C3 (amended): two toggles of one identifier in a row restore the
\* membership of every identifier; the stored array is identical, element for
\* element, when the identifier was not in the list before the two calls.
C3_TwoTogglesRestoreMembership ==
  \A i \in 1..Len(favLog) :
    TogglePair(i) =>
      /\ ItemSet(LoadedItems(StoredAfter(i + 1)))
           = ItemSet(favLog[i].mem.items)
      /\ ~Includes(favLog[i].mem.items, favLog[i].id)
           => LoadedItems(StoredAfter(i + 1)) = favLog[i].mem.items

C3_Witness ==
  /\ Len(favLog) = 2 /\ TogglePair(1)
  /\ favLog[1].mem.items = <<"m1", "m2">> /\ favLog[1].id = "m1"
  /\ LoadedItems(storage) = <<"m2", "m1">>

\* the in-memory list and the active buttons after the i-th logged toggle
MemAfter(i) == IF i < Len(favLog) THEN favLog[i + 1].mem ELSE favorites

ActiveAfter(i) == IF i < Len(favLog) THEN favLog[i + 1].act ELSE active

\* the stored value and the list the constructor found
InitialStorage == IF Len(favLog) > 0 THEN favLog[1].before ELSE storage

InitialFavorites == IF Len(favLog) > 0 THEN favLog[1].mem ELSE favorites

AllIds == Ids \cup RandomIds

Count(items, id) == Cardinality({i \in 1..Len(items) : items[i] = id})

NoDuplicates(items) == \A id \in AllIds : Count(items, id) <= 1

\* C11: a toggle on a button whose card has a stable identifier, on a
\* favorites list: an identifier in the list is removed with exactly one
\* "Removed from favorites" notification, an identifier not in the list is
\* added with exactly one "Added to favorites" notification, and the
\* membership of every other identifier is unchanged.
C11_ToggleAddsOrRemovesWithOneNotification ==
  favorites.kind = "array" =>
    /\ Len(toasts) = Len(favLog)
    /\ \A i \in 1..Len(favLog) :
         CardId(favLog[i].button) # "" =>
           LET id == favLog[i].id
               before == favLog[i].mem.items
               after == MemAfter(i).items
           IN /\ id = CardId(favLog[i].button)
              /\ IF Count(before, id) > 0
                 THEN /\ Count(after, id) = 0
                      /\ toasts[i] = "Removed from favorites"
                 ELSE /\ Count(after, id) = 1
                      /\ toasts[i] = "Added to favorites"
              /\ \A other \in AllIds \ {id} :
                   Count(after, other) = Count(before, other)

C11_Witness ==
  /\ Len(favLog) = 2
  /\ favLog[1].mem.items = <<"m2", "m1">>
  /\ favLog[1].button = "b1" /\ favLog[2].button = "b2"
  /\ toasts = <<"Removed from favorites", "Removed from favorites">>
  /\ favorites.items = <<>>

\* C12: after every toggle on a favorites list, the text stored under the
\* favorites key is the JSON array that parses to the in-memory list.
C12_StoredValueIsTheInMemoryList ==
  (favorites.kind = "array" /\ Len(favLog) > 0) =>
    /\ storage.present
    /\ JsonParse(storage.text) = favorites

C12_Witness ==
  /\ Len(favLog) = 2
  /\ ~InitialStorage.present
  /\ favorites.items = <<"m1", "m2">>
  /\ storage.text = <<"[", "m1", ",", "m2", "]">>

Corrupted(st) == st.present /\ JsonParse(st.text).kind # "array"

\* C14: when the stored value is corrupted, the constructor yields an empty
\* favorites list and neither it nor any later toggle raises an error.
C14_CorruptedValueLoadsAsEmptyList ==
  Corrupted(InitialStorage) =>
    /\ InitialFavorites = [kind |-> "array", items |-> <<>>]
    /\ ~favThrown

\* C15: on a favorites list, a click on a button whose card has no stable
\* identifier, the generated identifier not being in the list, takes the add
\* branch: the list keeps its records and gains the new one, the button is
\* marked active and the notification is "Added to favorites".
C15_FallbackIdentifierAlwaysAdds ==
  favorites.kind = "array" =>
    \A i \in 1..Len(favLog) :
      (CardId(favLog[i].button) = ""
         /\ ~Includes(favLog[i].mem.items, favLog[i].id)) =>
        /\ MemAfter(i).items = Append(favLog[i].mem.items, favLog[i].id)
        /\ favLog[i].button \in ActiveAfter(i)
        /\ toasts[i] = "Added to favorites"

C15_Witness ==
  /\ Len(favLog) = 2
  /\ favLog[1].button = "b4" /\ favLog[2].button = "b4"
  /\ InitialFavorites.items = <<"m1">>
  /\ favorites.items = <<"m1", "r1", "r2">>
  /\ "b4" \in active

\* the two outcomes of the fetch started for the temporary image tmp
LoadSucceeded(tmp) ==
  /\ images'[tmp.img].src = tmp.src
  /\ images'[tmp.img].loaded
  /\ images'[tmp.img].error = images[tmp.img].error
  /\ tmp.src \in loadedImages'

LoadFailed(tmp) ==
  /\ images'[tmp.img].src = ErrorPlaceholder
  /\ images'[tmp.img].error
  /\ images'[tmp.img].loaded = images[tmp.img].loaded
  /\ loadedImages' = loadedImages

\* C16: a fetch started by loadImage ends in one of two outcomes: the
\* element gets the fetched URL and the class "loaded" and the URL is
\* recorded in loadedImages, or the element gets the class "error" and the
\* placeholder source and loadedImages is left as it was; in both cases the
\* fetch is over, no other element changes and no new fetch is started.
C16_FetchEndsLoadedOrError ==
  [][\A tmp \in inflight \ inflight' :
       /\ LoadSucceeded(tmp) \/ LoadFailed(tmp)
       /\ inflight' = inflight \ {tmp}
       /\ fetches' = fetches
       /\ \A e \in Imgs \ {tmp.img} : images'[e] = images[e]]_vars

C16_Witness ==
  /\ inflight = {}
  /\ Len(fetches) = 2
  /\ images["i1"].loaded /\ ~images["i1"].error
  /\ images["i1"].src = fetches[1] /\ fetches[1] \in loadedImages
  /\ images["i2"].error /\ ~images["i2"].loaded
  /\ images["i2"].src = ErrorPlaceholder /\ fetches[2] \notin loadedImages

\* C17: an observed element that has intersected the viewport has had
\* loadImage called for it exactly once and is no longer observed, so the
\* observer triggers loadImage at most once per element.
C17_FirstIntersectionLoadsAndUnobserves ==
  \A e \in Imgs :
    lazy.hits[e] > 0 =>
      /\ lazy.loads[e] = 1
      /\ e \notin lazy.observed
      /\ lazy.thrown = 0

\* v holds white space only (or nothing)
OnlyWhitespace(v) == \A i \in 1..Len(v) : v[i] \in Whitespace

\* q is v without the white space at its two ends
IsTrimOf(q, v) ==
  /\ q = <<>> \/ (q[1] \notin Whitespace /\ q[Len(q)] \notin Whitespace)
  /\ \E a \in 0..Len(v) :
       /\ a + Len(q) <= Len(v)
       /\ SubSeq(v, a + 1, a + Len(q)) = q
       /\ \A i \in 1..Len(v) :
            (i <= a \/ i > a + Len(q)) => v[i] \in Whitespace

C19_SuggestionsAboveTwoCharacters ==
  \A i \in 1..Len(search.log) :
    LET r == search.log[i]
    IN r.ev = "input" =>
         /\ Len(r.calls) = 1
         /\ \E n \in 0..Len(r.value) :
              /\ \E q \in SeqsUpTo(Chars, MaxInput + 1) :
                   Len(q) = n /\ IsTrimOf(q, r.value)
              /\ IF n > 2
                 THEN /\ r.calls[1].fn = "showSuggestions"
                      /\ IsTrimOf(r.calls[1].arg, r.value)
                 ELSE r.calls[1].fn = "hideSuggestions"

C19_Witness ==
  /\ Len(search.log) = 3
  /\ search.log[1].value = <<" ", "a", "a">>
  /\ search.log[1].calls[1].fn = "hideSuggestions"
  /\ search.log[2].value = <<" ", "a", "a", "a">>
  /\ search.log[2].calls[1] =
       [fn |-> "showSuggestions", arg |-> <<"a", "a", "a">>]
  /\ search.log[3].value = <<" ", "a", "a">>
  /\ search.log[3].calls[1].fn = "hideSuggestions"

\* C20: whatever target elements are present or absent, constructing the
\* widgets and delivering clicks, Escape presses and resizes raises no error.
C20_NoErrorWhateverIsMissing == dom.thrown = {}

\* C21: right after a submit, the submission was blocked exactly when some
\* required field is blank after trimming; every blank required field has
\* the class is-invalid and an error element in its parent; every non-blank
\* one has no is-invalid class and, unless a blank field shares its parent,
\* no error element in its parent.
C21_ValidationMarksExactlyTheBlankFields ==
  form.fresh =>
    /\ form.blocked <=> \E f \in FieldSet : OnlyWhitespace(form.values[f])
    /\ \A f \in FieldSet :
         IF OnlyWhitespace(form.values[f])
         THEN f \in form.invalid /\ form.parent[f] \in form.errors
         ELSE /\ f \notin form.invalid
              /\ (\A g \in FieldSet :
                    form.parent[g] = form.parent[f]
                      => ~OnlyWhitespace(form.values[g]))
                   => form.parent[f] \notin form.errors

\* a fetch event the listener intercepts: a GET of the worker's origin
Intercepted(r) == r.req.method = "GET" /\ r.req.sameOrigin

\* C22: every intercepted request is answered with a response: the cached
\* one, with no network fetch, when a cache holds the request; otherwise
\* the network's; otherwise, the network failing, the cached shell page for
\* a navigation request.
C22_EveryInterceptedRequestIsAnswered ==
  \A i \in 1..Len(sw.log) :
    LET r == sw.log[i]
    IN Intercepted(r) =>
         /\ r.answer \in {"cache", "network", "shell"}
         /\ r.cached => (r.answer = "cache" /\ r.net = "unused")
         /\ (~r.cached /\ r.net \in {"200", "404"}) => r.answer = "network"
         /\ (~r.cached /\ r.net = "fail" /\ r.req.destination = "document")
              => r.answer = "shell"

\* C23: the install has succeeded only when every static asset could be
\* fetched and is in the current cache; otherwise the worker is redundant
\* and is never activated; after a successful install the shell page is in
\* the current cache.
C23_InstallStoresEveryStaticAsset ==
  /\ sw.phase \in {"installed", "activated"}
       => (sw.fetched = StaticAssets /\ StaticAssets \subseteq sw.cache
             /\ ShellPage \in sw.cache)
  /\ (sw.phase # "installing" /\ sw.fetched # StaticAssets)
       => (sw.phase = "redundant" /\ sw.cache = {} /\ sw.log = <<>>)

C23_Witness ==
  /\ sw.phase = "activated"
  /\ StaticAssets \subseteq sw.cache
  /\ Len(sw.log) = 1
  /\ sw.log[1].req.url = "/about.html"
  /\ sw.log[1].net = "fail"
  /\ sw.log[1].answer = "shell"

\* C24: a successful run of the publish script has run build, stage, commit
\* and push in this order (or, with nothing to publish, the build alone),
\* and every file's content in the working tree after the build is the
\* content pushed to origin main.
C24_PublishBuildsThenStagesCommitsPushes ==
  deploy.pc = "done" =>
    /\ deploy.log \in {<<"build", "success">>,
                      <<"build", "add", "commit", "push", "success">>}
    /\ \A f \in Files : deploy.remote[f] = deploy.work[f]

\* the transition callbacks of the widget w waiting in the callback queue
PendingTransitions(s, w) ==
  {i \in 1..Len(s.raf) :
     s.raf[i] \in (CASE w = "menu" -> {"menuOpen", "menuClose"}
                    [] w = "search" -> {"searchOpen", "searchClose"}
                    [] w = "tag" -> {"tagOpen", "tagClose"})}

\* C25: each of mobile menu, mobile search and add-tag modal has at most
\* one open or close transition callback waiting in the callback queue.
C25_OnePendingTransitionPerWidget ==
  \A w \in {"menu", "search", "tag"} :
    Cardinality(PendingTransitions(page, w)) <= 1

\* the page after the browser has run the first n pending callbacks
RECURSIVE RunCallbacks(_, _)
RunCallbacks(s, n) ==
  IF n = 0 THEN s
  ELSE RunCallbacks(RunCallback([s EXCEPT !.raf = Tail(@)], Head(s.raf)),
                    n - 1)

\* the page at the end of the next animation frame: the callbacks pending
\* now have run, those they requested wait for the frame after
AfterNextFrame(s) == RunCallbacks(s, Len(s.raf))

BothVisible(s) == s.navOpenCls /\ ~s.searchHidden

VisualMatchesIsOpen(s) ==
  /\ s.navOpenCls <=> s.menuIsOpen
  /\ ~s.searchHidden <=> s.searchIsOpen

\* C26: between frames, mobile menu and mobile search are both visually open
\* at the end of the next frame only if they are not both open now and the
\* opening callbacks of both wait in the queue together (the second was
\* opened before the callback of the first ran); and when both are visually
\* open now, then at the end of the next frame at most one is and each
\* widget's visual state equals its isOpen flag.
C26_BothVisibleOnlyByDoubleToggleForOneFrame ==
  frameLeft = 0 =>
    /\ BothVisible(AfterNextFrame(page)) =>
         /\ ~BothVisible(page)
         /\ \E i, j \in 1..Len(page.raf) :
              page.raf[i] = "menuOpen" /\ page.raf[j] = "searchOpen"
    /\ BothVisible(page) =>
         /\ ~BothVisible(AfterNextFrame(page))
         /\ VisualMatchesIsOpen(AfterNextFrame(page))

\* both panels are shown between two frames, after a click on the menu
\* toggle and a click on the search toggle before the next frame
C26_Witness ==
  /\ frameLeft = 0
  /\ BothVisible(page)
  /\ last.ev = "searchOpenCall" /\ last.anim /\ "menu" \in last.open

\* the toggles of identifier id made so far, as positions in the history
TogglesOf(id) == {k \in 1..Len(tabs.ops) : tabs.ops[k].id = id}

\* C27: after any number of completed toggles by page instances sharing the
\* storage key, the persisted array reflects every toggle: an identifier
\* whose latest toggle added it is in the array, one whose latest toggle
\* removed it is not.
C27_PersistedArrayReflectsEveryToggle ==
  \A id \in Ids :
    TogglesOf(id) # {} =>
      LET k == CHOOSE k \in TogglesOf(id) : \A j \in TogglesOf(id) : j <= k
      IN (tabs.ops[k].kind = "add")
           <=> Includes(LoadFavorites(tabs.store).items, id)

\* C28: a press of Escape while the search input has the focus leaves the
\* input empty and without the focus, whatever it held before, and calls
\* neither showSearchResults nor showSuggestions.
C28_EscapeClearsAndBlursTheSearchInput ==
  [][(/\ search.focused
      /\ Len(search'.log) = Len(search.log) + 1
      /\ search'.log[Len(search'.log)].ev = "escape")
     => /\ search'.value = <<>>
        /\ ~search'.focused
        /\ \A k \in 1..Len(search'.log[Len(search'.log)].calls) :
             search'.log[Len(search'.log)].calls[k].fn
               \notin {"showSearchResults", "showSuggestions"}]_vars

\* Escape has just been pressed in the focused input, which held text
C28_Witness ==
  /\ search.log # <<>>
  /\ LET r == search.log[Len(search.log)]
     IN r.ev = "escape" /\ r.focusBefore /\ r.value # <<>>
  /\ search.value = <<>> /\ ~search.focused

SomeModalVisible(s) == ~s.loginHidden \/ ~s.signupHidden \/ ~s.tagHidden

\* C30: whenever no animation-frame callback is pending and the login, the
\* signup or the add-tag modal is visible, the body's overflow is "hidden".
C30_ScrollLockedWhileAModalIsVisible ==
  (Idle /\ SomeModalVisible(page)) => page.overflow = "hidden"

\* C31: whenever no animation-frame callback is pending, the mobile menu,
\* the mobile search and the add-tag modal are each shown exactly when their
\* isOpen flag is true.
C31_VisualStateAgreesWithIsOpenWhenIdle ==
  Idle =>
    /\ page.navOpenCls <=> page.menuIsOpen
    /\ ~page.navClosedCls <=> page.menuIsOpen
    /\ ~page.searchHidden <=> page.searchIsOpen
    /\ ~page.tagHidden <=> page.tagIsOpen

\* the search panel was opened and closed again before its opening callback
\* ran, the add-tag modal is open, and all the callbacks have run
C31_Witness ==
  /\ Idle
  /\ last.ev = "click" /\ "search" \in last.open
  /\ ~page.searchIsOpen /\ page.searchHidden /\ page.searchInputCached
  /\ page.tagIsOpen /\ ~page.tagHidden

\* C32: every state in which the mobile menu's isAnimating is true is
\* followed by one in which it is false, and isAnimating is true only while
\* exactly one transition callback of the menu waits in the callback queue.
C32_AnimationLockIsNeverStuck ==
  /\ page.menuIsAnimating ~> ~page.menuIsAnimating
  /\ [](page.menuIsAnimating =>
          Cardinality(PendingTransitions(page, "menu")) = 1)

\* the lock has been taken by a close() and released by its callback
C32_Witness ==
  /\ ~page.menuIsAnimating
  /\ last.ev = "click" /\ "menu" \in last.open /\ ~last.anim
  /\ ~page.menuIsOpen /\ page.navClosedCls /\ page.ariaMenu = "false"

\* C33: with a favorites list, after construction and after any clicks,
\* every favorite button whose card has a stable identifier carries the
\* is-active class exactly when that identifier is in the list.
C33_ActiveClassFollowsMembership ==
  favorites.kind = "array" =>
    \A b \in Buttons :
      CardId(b) # "" =>
        (b \in active <=> Includes(favorites.items, CardId(b)))

\* the script has run, the document is complete and nothing is pending
BootDone ==
  boot.started /\ boot.ready = "complete" /\ boot.raf = <<>>

\* C34: on every page load the application is initialised at most once and
\* the page features are installed at most once at any moment, and once the
\* document is complete and no callback is pending, exactly one application
\* object has been initialised, exactly once, and every in-page link has
\* exactly one smooth-scroll handler and every form exactly one submit
\* handler of the form validation.
C34_InitialisedAndInstalledExactlyOnce ==
  /\ boot.apps <= 1 /\ boot.inits <= 1 /\ boot.features <= 1
  /\ BootDone =>
       /\ boot.apps = 1 /\ boot.inits = 1 /\ boot.features = 1
       /\ \A f \in 1..Len(boot.doc) : boot.handlers[f] = 1

\* a document with a form and an in-page link is complete, the application
\* was created by the DOMContentLoaded listener, and init() has been called
\* a second time
C34_Witness ==
  /\ BootDone
  /\ boot.doc = <<"form", "anchor">> /\ boot.calls = 1
  /\ boot.fired /\ boot.apps = 1 /\ boot.inits = 1
  /\ boot.handlers = <<1, 1>>

\* C35: once the activate step has completed, the only cache that exists is
\* the one named CACHE_NAME, and it holds every pre-cached asset.
C35_OnlyTheCurrentCacheAfterActivate ==
  sw.phase = "activated" =>
    /\ sw.names = {CacheName}
    /\ sw.others = {}
    /\ StaticAssets \subseteq sw.cache

\* activate has deleted two caches of other names
C35_Witness ==
  /\ sw.phase = "activated"
  /\ sw.deleted = OtherCacheNames
  /\ sw.names = {CacheName}

\* the fetch event that started the cache.put of the response k is a GET
\* request for url u of the worker's own origin, answered 200 by the network
PutOfGoodResponse(s, u, k) ==
  /\ k \in 1..Len(s.log)
  /\ s.log[k].req.url = u
  /\ s.log[k].req.method = "GET" /\ s.log[k].req.sameOrigin
  /\ s.log[k].net = "200"

\* C36: every response the worker adds to its cache at runtime is a 200
\* response to a GET request for its own origin; a request that is not GET
\* or is for another origin is left to the browser; and a URL the cache
\* holds a response for keeps that very response.
C36_CachesOnlyGoodResponsesAndNeverReplaces ==
  [][/\ \A q \in sw'.puts : PutOfGoodResponse(sw', q.url, q.ev)
     /\ \A u \in RequestUrls :
          sw'.body[u] > 0 => PutOfGoodResponse(sw', u, sw'.body[u])
     /\ \A k \in 1..Len(sw'.log) :
          (sw'.log[k].req.method # "GET" \/ ~sw'.log[k].req.sameOrigin)
            => sw'.log[k].answer = "browser"
     /\ \A u \in sw.cache :
          u \in sw'.cache /\ sw'.body[u] = sw.body[u]]_vars

\* the commands of the publish script that ran to their end
DeployRan(c) == \E k \in 1..Len(deploy.log) : deploy.log[k] = c

\* C37: when a step of GitHubPagesDeployer.deploy has failed, no later step
\* has run, the success message has not been printed and the process has
\* ended with exit code 1; git push has not run after a failed build or a
\* failed commit.
C37_FailedStepStopsTheRun ==
  deploy.failedAt # "none" =>
    /\ deploy.pc = "failed" /\ deploy.exit = "1"
    /\ ~DeployRan("success")
    /\ deploy.failedAt = "status" =>
         ~DeployRan("build") /\ ~DeployRan("commit") /\ ~DeployRan("push")
    /\ deploy.failedAt = "build" =>
         ~DeployRan("build") /\ ~DeployRan("commit") /\ ~DeployRan("push")
    /\ deploy.failedAt \in {"commit status", "commit"} =>
         ~DeployRan("commit") /\ ~DeployRan("push")
    /\ deploy.failedAt = "push" => ~DeployRan("push")

\* the build failed after the changes found had been staged
C37_Witness ==
  /\ deploy.failedAt = "build"
  /\ deploy.log = <<"add">>
  /\ deploy.exit = "1"

\* C38: git push has run only in a run in which git status printed changes
\* after the build and git commit succeeded; when git status printed nothing
\* after the build, neither git commit nor git push has run and the run
\* has ended with the success message.
C38_PushOnlyAfterChangesAndCommit ==
  /\ DeployRan("push") =>
       /\ deploy.changed = "changes"
       /\ \E k \in 1..(Len(deploy.log) - 1) :
            deploy.log[k] = "commit" /\ deploy.log[k + 1] = "push"
  /\ deploy.changed = "clean" =>
       /\ ~DeployRan("commit") /\ ~DeployRan("push")
       /\ deploy.pc = "done" /\ deploy.exit = "0" /\ DeployRan("success")

\* a run on a clean tree whose build changed nothing, and which succeeded
C38_Witness ==
  /\ deploy.changed = "clean"
  /\ deploy.log = <<"build", "success">>
  /\ deploy.remote = [f \in Files |-> 0]

\* what the steps that returned normally have put into the build directory
BuiltSoFar ==
  UNION {CASE build.out[k].step = "css" -> {"css"}
           [] build.out[k].step = "info" -> {"build-info"}
           [] build.out[k].step = "package" ->
                build.sources \cup {"DEPLOYMENT.md"}
           [] OTHER -> {} :
         k \in {i \in 1..Len(build.out) : build.out[i].ok}}

\* C39: the steps of Deployer.deploy run in the order clean, build CSS,
\* optimize images, validate HTML, generate build info, create package; a
\* failed image optimization is followed by the next step; a failure of any
\* other step is the last step of the run, which ends with exit code 1, and
\* after a failure that follows the clean step the build directory holds
\* nothing of the previous build and what the steps before have built.
C39_BuildStepsInOrderOnlyImagesMayFail ==
  /\ Len(build.out) <= Len(DeploySteps)
  /\ \A k \in 1..Len(build.out) :
       /\ build.out[k].step = DeploySteps[k]
       /\ ~build.out[k].ok =>
            IF build.out[k].step = "images"
            THEN build.pc # "failed" \/ k < Len(build.out)
            ELSE /\ k = Len(build.out)
                 /\ build.pc = "failed" /\ build.exit = "1"
                 /\ k > 1 =>
                      /\ build.dir \cap PreviousBuild = {}
                      /\ BuiltSoFar \subseteq build.dir
                      /\ build.dir \subseteq BuiltSoFar \cup build.sources
  /\ build.pc = "failed" =>
       /\ build.out # <<>>
       /\ ~build.out[Len(build.out)].ok
       /\ build.out[Len(build.out)].step # "images"

\* image optimization failed, the run went on and stopped at the package
\* step, leaving a partial build where a previous build had been
C39_Witness ==
  /\ build.pc = "failed" /\ build.exit = "1"
  /\ Len(build.out) = 6
  /\ ~build.out[3].ok
  /\ build.dir = {"css", "build-info", "index.html", "js"}
  /\ build.sources = CopiedSources

\* C4: no URL is fetched twice: loadImage calls with the same resolved URL
\* start exactly one fetch between them.
C4_OneFetchPerResolvedUrl ==
  \A i, j \in 1..Len(fetches) : fetches[i] = fetches[j] => i = j

\* C5: after an Escape key press, once no animation-frame callback is
\* pending, every widget that was open when the key was pressed is closed.
C5_EscapeClosesEveryOpenWidget ==
  (last.ev = "escape" /\ Idle) =>
    \A w \in last.open :
      w \notin OpenWidgets(page) /\ w \notin VisibleWidgets(page)

\* C6 (as claimed): in every reachable state at most one of mobile menu and
\* mobile search is visually open.
C6_AtMostOneVisibleAlways == ~(page.navOpenCls /\ ~page.searchHidden)

\* C6 (amended): whenever no animation-frame callback is pending, at most
\* one of mobile menu and mobile search is visually open.
C6_AtMostOneVisibleWhenIdle ==
  Idle => ~(page.navOpenCls /\ ~page.searchHidden)

C6_Witness ==
  /\ Idle
  /\ last.ev = "menuOpenCall" /\ "search" \in last.open
  /\ page.navOpenCls /\ page.searchHidden

\* C7: open() or close() called on the mobile menu while isAnimating is
\* true, and open() called on an already open menu, search panel or add-tag
\* modal, changes nothing: no flag, class, attribute or pending callback.
C7_IgnoredCallsChangeNothing ==
  [][(/\ last'.seq # last.seq
      /\ \/ last'.ev \in {"menu.open", "menu.close"} /\ page.menuIsAnimating
         \/ last'.ev = "menu.open" /\ page.menuIsOpen
         \/ last'.ev = "search.open" /\ page.searchIsOpen
         \/ last'.ev = "tag.open" /\ page.tagIsOpen)
     => page' = page]_vars

C7_Witness ==
  /\ last.ev = "menu.close" /\ last.anim /\ "menu" \in last.open
  /\ page.menuIsOpen /\ page.menuIsAnimating
  /\ page.raf = <<"menuOpen">>

\* C8: a close operation called on a widget that is already closed changes
\* nothing and schedules no callback, for mobile menu, mobile search, add-tag
\* modal, login modal and signup modal.
C8_CloseWhenClosedChangesNothing ==
  [][(/\ last'.seq # last.seq
      /\ \/ last'.ev = "menu.close" /\ "menu" \notin OpenWidgets(page)
         \/ last'.ev = "search.close" /\ "search" \notin OpenWidgets(page)
         \/ last'.ev = "tag.close" /\ "tag" \notin OpenWidgets(page)
         \/ last'.ev = "closeLogin" /\ "login" \notin OpenWidgets(page)
         \/ last'.ev = "closeSignup" /\ "signup" \notin OpenWidgets(page))
     => page' = page]_vars

\* C9: whenever no animation-frame callback is pending, aria-expanded of the
\* menu toggle and of the search toggle is "true" exactly when the widget's
\* isOpen flag is true and "false" when it is false, once the widget has
\* made its first transition.
C9_AriaExpandedFollowsIsOpen ==
  Idle =>
    /\ page.ariaMenu \in {"true", "false"}
         => (page.ariaMenu = "true" <=> page.menuIsOpen)
    /\ page.searchInputCached
         => page.ariaSearch = (IF page.searchIsOpen THEN "true" ELSE "false")

\* C10: when handleResize has run with a viewport at least 768 wide, then
\* once no animation-frame callback is pending the mobile menu and the
\* mobile search are closed.
C10_WideResizeClosesMobileWidgets ==
  (last.ev = "resizeWide" /\ Idle) =>
    (MenuShownClosed(page) /\ SearchShownClosed(page))

====
